---------------------------- MODULE Spec2Model ----------------------------
(***************************************************************************)
(* A model of TabletDriverCleanup: the pattern matcher (regex_cache.rs,    *)
(* the three ToUninstall::matches implementations), the generic module run *)
(* loop (cleanup_modules/mod.rs), the process driver (lib.rs run), the     *)
(* resource resolution (services/identifiers.rs), the supervision of an    *)
(* uninstaller (driver_package_cleanup.rs run_uninstall_method), concurrent*)
(* callers of cached_match, the scopes that own an OS handle, and the      *)
(* interest filter of the dump command (services/interest.rs).             *)
(*                                                                         *)
(* Strings are sequences of one-character strings.  Option<T> is a record  *)
(* [some, v].  A pattern text is a sequence of atoms: a literal character  *)
(* or "." (any character), each optionally followed by "*".                *)
(***************************************************************************)
EXTENDS Integers, Sequences, FiniteSets, TLC

VARIABLES
    \* ---- process-wide state -------------------------------------------
    REGEX_CACHE,        \* regex_cache.rs: pattern text -> compiled Regex
    \* ---- configuration (lib.rs State) and environment ------------------
    interactive, dry_run, elevated, modules,
    \* ---- lib.rs run ----------------------------------------------------
    pc,                 \* position of the process
    mi,                 \* index of the module being run
    need_reboot,        \* RunState.need_reboot
    exit_code,          \* -1 while running
    rebooted,           \* the shutdown command was spawned
    reboot_key,         \* the key read at the reboot prompt, "none" before
    \* ---- Module::run (mod.rs) ------------------------------------------
    objects_to_uninstall, objects, oi, found, reboot_required, run_result,
    \* ---- observation of one module run ---------------------------------
    log,                \* prompts, uninstall calls and messages, in order
    chosen,             \* should_uninstall's answer for each object so far
    load_failed, enum_failed, cancel_at,
    payload,            \* the criteria resource initialize last parsed
    uninstalled,        \* uninstall actions of this process that returned Ok
    \* ---- application of one pure function ------------------------------
    m_call, m_ret,
    \* ---- lib.rs State, the file system and the build (identifiers.rs) --
    use_cache, allow_updates, config_dir, cache_file, EMBEDDED_IDENTIFIERS,
    \* ---- get_resource --------------------------------------------------
    r_pc,               \* the tier get_resource is at
    r_tried,            \* the tiers attempted so far, with their answers
    r_result,           \* what get_resource returned
    r_n,                \* resolutions of the identifier started so far
    r_prev,             \* flags and result of the resolution before this one
    \* ---- run_uninstall_method (driver_package_cleanup.rs) --------------
    uninstall_method,   \* Normal or Deferred
    u_pc,               \* position of run_uninstall_method
    u_branch,           \* the select! branch that completed
    u_result,           \* what run_uninstall_method returned
    ct,                 \* the CancellationToken of line 215 is cancelled
    mf_pc, mf_result,   \* the future of uninstall_normal/_deferred
    process_delegate,   \* outcome of the search for the delegate
    child, delegate,    \* the launched process and the one it starts
    main_wait,          \* the task spawned by wait_for_process_async
    delegate_wait,      \* the wait on the delegate inside join!
    key_task,           \* the task spawned by read_key_async
    keys,               \* key presses waiting in the terminal
    launch,             \* what Command::spawn answered
    local_ct,           \* the token created by uninstall_deferred is cancelled
    delegate_info,      \* the process entry uninstall_deferred has picked
    \* ---- concurrent callers of cached_match (regex_cache.rs) -----------
    lock,               \* the holder of the REGEX_CACHE mutex, 0 if free
    th,                 \* each calling thread's position and locals
    built,              \* the pattern texts build_regex was called with
    \* ---- scopes that own an OS handle (windows.rs, device_cleanup.rs) --
    h_pc,               \* idle, or inside wait_for_process_async
    h_open,             \* the handles of each kind that are open
    h_exit,             \* the path on which the last scope was left
    h_calls             \* scopes entered so far

vars == <<REGEX_CACHE, interactive, dry_run, elevated, modules, pc, mi,
          need_reboot, exit_code, rebooted, reboot_key, objects_to_uninstall, objects,
          oi, found, reboot_required, run_result, log, chosen,
          load_failed, enum_failed, cancel_at, payload, uninstalled,
          m_call, m_ret, use_cache, allow_updates, config_dir, cache_file,
          EMBEDDED_IDENTIFIERS, r_pc, r_tried, r_result, r_n, r_prev,
          uninstall_method, u_pc, u_branch, u_result, ct, mf_pc, mf_result,
          process_delegate, child, delegate, main_wait, delegate_wait,
          key_task, keys, launch, local_ct, delegate_info,
          lock, th, built,
          h_pc, h_open, h_exit, h_calls>>

runVars == <<interactive, dry_run, elevated, modules, pc, mi, need_reboot,
             exit_code, rebooted, reboot_key, objects_to_uninstall, objects, oi, found,
             reboot_required, run_result, log, chosen, load_failed,
             enum_failed, cancel_at, payload, uninstalled>>

resolveVars ==
    <<use_cache, allow_updates, config_dir, cache_file,
      EMBEDDED_IDENTIFIERS, r_pc, r_tried, r_result, r_n, r_prev>>

superVars ==
    <<uninstall_method, u_pc, u_branch, u_result, ct, mf_pc, mf_result,
      process_delegate, child, delegate, main_wait, delegate_wait,
      key_task, keys, launch, local_ct, delegate_info>>

cacheVars == <<lock, th, built>>

handleVars == <<h_pc, h_open, h_exit, h_calls>>

----------------------------------------------------------------------------
(* Bounds *)

MaxLen == 3          \* longest attribute string given to cached_match
MaxPatLen == 2       \* longest pattern (in atoms) given to cached_match
MaxHwLen == 2        \* longest raw hardware-id buffer given to Device::new
MaxObjects == 2      \* longest enumeration returned by get_objects
MaxCriteria == 2     \* longest criteria list loaded by initialize
MaxKeys == 1         \* key presses made while an uninstaller is supervised
MaxThreads == 2      \* threads that call cached_match concurrently
MaxScopes == 3       \* handle-owning scopes entered one after another
MaxResolutions == 2  \* resolutions of one identifier, one per program run
MaxProcesses == 2    \* entries of the process table besides the uninstaller

----------------------------------------------------------------------------
(* Option, strings *)

None == [some |-> FALSE, v |-> <<>>]
Some(x) == [some |-> TRUE, v |-> x]

NUL == "NUL"
ANY == "."

Alphabet == {"a", "A", "b"}

RECURSIVE SeqsUpTo(_, _)
SeqsUpTo(S, n) ==
    IF n = 0 THEN {<<>>}
    ELSE LET shorter == SeqsUpTo(S, n - 1)
         IN  shorter \cup {Append(s, c) : s \in shorter, c \in S}

FoldTable ==
    [A |-> "a", B |-> "b", C |-> "c", M |-> "m", O |-> "o", T |-> "t",
     V |-> "v", W |-> "w"]

\* simple case folding of one character, as the regex crate does for a
\* pattern built with case_insensitive(true)
Fold(c) == IF c \in DOMAIN FoldTable THEN FoldTable[c] ELSE c

FoldStr(s) == [i \in 1..Len(s) |-> Fold(s[i])]

----------------------------------------------------------------------------
(* Regex: build_regex and Regex::is_match *)

Lit(c) == [c |-> c, star |-> FALSE]
Star(c) == [c |-> c, star |-> TRUE]

Atoms == [c : Alphabet \cup {ANY}, star : BOOLEAN]

build_regex_case_sensitive(regex) == [prog |-> regex, ci |-> FALSE]

\* RegexBuilder::new(regex).case_insensitive(true).build().unwrap()
build_regex(regex) ==
    [prog |-> [i \in 1..Len(regex) |->
                 [c |-> IF regex[i].c = ANY THEN ANY ELSE Fold(regex[i].c),
                  star |-> regex[i].star]],
     ci |-> TRUE]

AtomAccepts(re, k, ch) ==
    \/ re.prog[k].c = ANY
    \/ re.prog[k].c = (IF re.ci THEN Fold(ch) ELSE ch)

\* the positions reachable from S without reading a character (skipping
\* starred atoms); position k means "atoms 1..k-1 are matched"
Closure(re, S) ==
    {k \in 1..(Len(re.prog) + 1) :
        \E j \in S : j <= k /\ \A m \in j..(k - 1) : re.prog[m].star}

StepNfa(re, S, ch) ==
    Closure(re,
        {k + 1 : k \in {j \in S : j <= Len(re.prog)
                                  /\ ~re.prog[j].star
                                  /\ AtomAccepts(re, j, ch)}}
        \cup {k \in S : k <= Len(re.prog)
                        /\ re.prog[k].star
                        /\ AtomAccepts(re, k, ch)})

RECURSIVE AnchoredFrom(_, _, _, _)
AnchoredFrom(re, input, i, S) ==
    IF i > Len(input) THEN (Len(re.prog) + 1) \in S
    ELSE AnchoredFrom(re, input, i + 1, StepNfa(re, S, input[i]))

is_match_anchored(re, input) == AnchoredFrom(re, input, 1, Closure(re, {1}))

\* unanchored search: a match may start at every position of the input
RECURSIVE SearchFrom(_, _, _, _)
SearchFrom(re, input, i, S) ==
    IF (Len(re.prog) + 1) \in S THEN TRUE
    ELSE IF i > Len(input) THEN FALSE
    ELSE SearchFrom(re, input, i + 1,
                    StepNfa(re, S, input[i]) \cup Closure(re, {1}))

\* Regex::is_match
is_match(re, input) == SearchFrom(re, input, 1, Closure(re, {1}))

----------------------------------------------------------------------------
(* regex_cache.rs *)

\* cached_match, run under the REGEX_CACHE mutex from the lookup to the
\* end of is_match: the result and the cache afterwards
cached_match(cache, input, regex_pattern) ==
    IF ~regex_pattern.some THEN [ret |-> TRUE, cache |-> cache]
    ELSE IF ~input.some THEN [ret |-> FALSE, cache |-> cache]
    ELSE LET hit == regex_pattern.v \in DOMAIN cache
             regex == IF hit THEN cache[regex_pattern.v]
                      ELSE build_regex(regex_pattern.v)
             after == IF hit THEN cache
                      ELSE [p \in DOMAIN cache \cup {regex_pattern.v} |->
                              IF p = regex_pattern.v THEN regex ELSE cache[p]]
         IN  [ret |-> is_match(regex, input.v), cache |-> after]

EmptyCache == [p \in {} |-> build_regex(p)]

----------------------------------------------------------------------------
(* services/windows.rs: the enumerated objects *)

Uuids == {0, 1}      \* 0 is the nil Uuid (Uuid::default())

RECURSIVE Split(_, _)
\* str::split(sep): the pieces between the separators, empty pieces kept
Split(s, sep) ==
    IF \A i \in 1..Len(s) : s[i] # sep THEN <<s>>
    ELSE LET k == CHOOSE i \in 1..Len(s) :
                      s[i] = sep /\ \A j \in 1..(i - 1) : s[j] # sep
         IN  <<SubSeq(s, 1, k - 1)>> \o Split(SubSeq(s, k + 1, Len(s)), sep)

\* Device::new: the raw hardware-id buffer is split at NUL; None gives the
\* empty list
Device_new(instance_id, hardware_ids, description, manufacturer, class_guid) ==
    [instance_id |-> instance_id,
     hardware_ids |-> IF hardware_ids.some THEN Split(hardware_ids.v, NUL)
                      ELSE <<>>,
     description |-> description,
     manufacturer |-> manufacturer,
     class_guid |-> class_guid]

Driver_new(inf_name, inf_original_name, driver_store_location, provider, class_guid) ==
    [inf_name |-> inf_name,
     inf_original_name |-> inf_original_name,
     driver_store_location |-> driver_store_location,
     provider |-> provider,
     class_guid |-> class_guid]

DriverPackage_new(key_name, display_name, display_version, publisher, uninstall_string) ==
    [key_name |-> key_name,
     display_name |-> display_name,
     display_version |-> display_version,
     publisher |-> publisher,
     uninstall_string |-> uninstall_string]

----------------------------------------------------------------------------
(* ToUninstall::matches of the three variants.  Each returns the result   *)
(* and the cache afterwards; && and any() stop at the first decisive      *)
(* operand, so later patterns are not compiled.                           *)

RECURSIVE AllHardwareIds(_, _, _, _)
AllHardwareIds(cache, hwids, pattern, i) ==
    IF i > Len(hwids) THEN [ret |-> TRUE, cache |-> cache]
    ELSE LET r == cached_match(cache, Some(hwids[i]), pattern)
         IN  IF ~r.ret THEN r
             ELSE AllHardwareIds(r.cache, hwids, pattern, i + 1)

RECURSIVE AnyHardwareId(_, _, _, _)
\* other.hardware_ids().iter().any(|hwid| cached_match(Some(hwid), ..))
AnyHardwareId(cache, hwids, pattern, i) ==
    IF i > Len(hwids) THEN [ret |-> FALSE, cache |-> cache]
    ELSE LET r == cached_match(cache, Some(hwids[i]), pattern)
         IN  IF r.ret THEN r
             ELSE AnyHardwareId(r.cache, hwids, pattern, i + 1)

UuidMatches(expected, actual) ==
    IF expected.some THEN actual = expected.v ELSE TRUE

DeviceToUninstall_matches(cache, self, other) ==
    LET r1 == cached_match(cache, other.description, self.device_desc)
        r2 == cached_match(r1.cache, other.manufacturer, self.manufacturer)
    IN  IF ~r1.ret THEN r1
        ELSE IF ~r2.ret THEN r2
        ELSE IF ~UuidMatches(self.class_uuid, other.class_guid)
             THEN [ret |-> FALSE, cache |-> r2.cache]
        ELSE AnyHardwareId(r2.cache, other.hardware_ids, self.hardware_id, 1)

DriverToUninstall_matches_any_field(cache, self, other) ==
    LET r1 == cached_match(cache, other.inf_original_name, self.original_name)
        r2 == cached_match(r1.cache, other.provider, self.provider)
    IN  IF r1.ret /\ self.original_name.some THEN r1
        ELSE IF r2.ret /\ self.provider.some THEN r2
        ELSE [ret |-> UuidMatches(self.class, other.class_guid),
              cache |-> r2.cache]

DriverToUninstall_matches(cache, self, other) ==
    LET r1 == cached_match(cache, other.inf_original_name, self.original_name)
        r2 == cached_match(r1.cache, other.provider, self.provider)
    IN  IF ~r1.ret THEN r1
        ELSE IF ~r2.ret THEN r2
        ELSE [ret |-> UuidMatches(self.class, other.class_guid),
              cache |-> r2.cache]

DriverPackageToUninstall_matches(cache, self, other) ==
    LET r1 == cached_match(cache, other.display_name, self.display_name)
        r2 == cached_match(r1.cache, other.display_version,
                           self.display_version)
        r3 == cached_match(r2.cache, other.publisher, self.publisher)
    IN  IF ~r1.ret THEN r1
        ELSE IF ~r2.ret THEN r2
        ELSE r3

\* <ToUninstall as ToUninstall<Object>>::matches, by module variant
matches(variant, cache, self, other) ==
    CASE variant = "Device" -> DeviceToUninstall_matches(cache, self, other)
      [] variant = "Driver" -> DriverToUninstall_matches(cache, self, other)
      [] variant = "DriverPackage" ->
             DriverPackageToUninstall_matches(cache, self, other)

Idle == [op |-> "idle"]
Pending == [done |-> FALSE, ret |-> FALSE]

----------------------------------------------------------------------------
(* mod.rs: should_uninstall *)

RECURSIVE FindLast(_, _, _, _, _, _)
FindLast(variant, cache, object, list, i, best) ==
    IF i > Len(list) THEN [idx |-> best, cache |-> cache]
    ELSE LET r == matches(variant, cache, list[i], object)
         IN  FindLast(variant, r.cache, object, list, i + 1,
                      IF r.ret THEN i ELSE best)

RECURSIVE FindFirst(_, _, _, _, _)
\* Iterator::find: the first element the predicate accepts; idx 0 is None
FindFirst(variant, cache, object, list, i) ==
    IF i > Len(list) THEN [idx |-> 0, cache |-> cache]
    ELSE LET r == matches(variant, cache, list[i], object)
         IN  IF r.ret THEN [idx |-> i, cache |-> r.cache]
             ELSE FindFirst(variant, r.cache, object, list, i + 1)

should_uninstall_last(variant, cache, object, list) ==
    FindLast(variant, cache, object, list, 1, 0)

should_uninstall_or_first(variant, cache, object, list) ==
    LET r == FindFirst(variant, cache, object, list, 1)
    IN  IF r.idx = 0 /\ Len(list) > 0 THEN [idx |-> 1, cache |-> r.cache]
        ELSE r

should_uninstall(variant, cache, object, list) ==
    FindFirst(variant, cache, object, list, 1)

----------------------------------------------------------------------------
(* The modules of main.rs, and the objects and criteria of the runs *)

AllModules == <<"DriverPackage", "Device", "Driver">>

RECURSIVE Selected(_, _)
\* parse_to_config: the modules whose flag is set, in the order of main.rs
Selected(flags, i) ==
    IF i > Len(AllModules) THEN <<>>
    ELSE (IF flags[i] THEN <<AllModules[i]>> ELSE <<>>)
         \o Selected(flags, i + 1)

ModuleSelections ==
    {Selected(flags, 1) : flags \in [1..Len(AllModules) -> BOOLEAN]}

ObjectUniverse(variant) ==
    CASE variant = "Device" ->
             {Device_new("devA", Some(<<"a", NUL, "b">>), Some(<<"A", "b">>),
                         Some(<<"a">>), 1),
              Device_new("devB", Some(<<"b">>), Some(<<"b">>), None, 0),
              Device_new("devC", None, None, None, 0)}
      [] variant = "Driver" ->
             {Driver_new("oem1.inf", Some(<<"a">>), Some(<<"b">>),
                         Some(<<"A", "b">>), 1),
              Driver_new("oem2.inf", None, None, Some(<<"a">>), 0)}
      [] variant = "DriverPackage" ->
             {DriverPackage_new("keyA", Some(<<"a">>), None,
                                Some(<<"A", "b">>), Some(<<"a">>)),
              DriverPackage_new("keyB", None, None, Some(<<"a">>), None)}

CriteriaUniverse(variant) ==
    CASE variant = "Device" ->
             {[friendly_name |-> "X", device_desc |-> None,
               manufacturer |-> None,
               hardware_id |-> Some(<<Lit("A"), Star(ANY)>>),
               class_uuid |-> None],
              [friendly_name |-> "Y", device_desc |-> Some(<<Lit("B")>>),
               manufacturer |-> None, hardware_id |-> None,
               class_uuid |-> None]}
      [] variant = "Driver" ->
             {[friendly_name |-> "X", original_name |-> None,
               provider |-> Some(<<Lit("A")>>), class |-> None],
              [friendly_name |-> "Y", original_name |-> Some(<<Lit("A")>>),
               provider |-> None, class |-> Some(1)]}
      [] variant = "DriverPackage" ->
             {[friendly_name |-> "X", display_name |-> None,
               display_version |-> None, publisher |-> Some(<<Lit("A")>>),
               uninstall_method |-> "Normal"],
              [friendly_name |-> "Y", display_name |-> Some(<<Lit("A")>>),
               display_version |-> None, publisher |-> None,
               uninstall_method |-> "RegistryOnly"]}

CriteriaLists(variant) == SeqsUpTo(CriteriaUniverse(variant), MaxCriteria)

\* an enumeration lists every object once
ObjectLists(variant) ==
    {s \in SeqsUpTo(ObjectUniverse(variant), MaxObjects) :
        \A i, j \in 1..Len(s) : i # j => s[i] # s[j]}

\* what uninstall_object can come to for an object and its criterion:
\* Ok(()) with or without the reboot flag raised, an UninstallError, or a
\* panic of an unwrap() on an attribute the object does not have
UninstallOutcomes(variant, object, to_uninstall) ==
    CASE variant = "Device" -> {"Ok", "OkReboot", "UninstallFailed"}
      [] variant = "Driver" ->
             IF object.driver_store_location.some
                /\ object.inf_original_name.some
             THEN {"Ok", "OkReboot", "UninstallFailed"}
             ELSE {"Panic"}
      [] variant = "DriverPackage" ->
             IF to_uninstall.uninstall_method = "RegistryOnly"
             THEN {"Ok", "UninstallFailed"}
             ELSE IF object.uninstall_string.some
             THEN {"Ok", "UninstallFailed", "AlreadyUninstalled"}
             ELSE {"Panic"}

IsErr(outcome) == outcome \in {"UninstallFailed", "AlreadyUninstalled"}

----------------------------------------------------------------------------
(* mod.rs: Module::run, one step per suspension point or external call *)

Module == modules[mi]

Event(kind, obj, crit, what) ==
    [kind |-> kind, obj |-> obj, crit |-> crit, what |-> what]

NeedsPrompt_always == interactive

\* if state.interactive && !state.dry_run
NeedsPrompt == interactive /\ ~dry_run

InvokesUninstall_always == TRUE

\* if !state.dry_run
InvokesUninstall == ~dry_run

AfterPrompt_cancel_skips(prompt) ==
    CASE prompt = "No" -> "skip"
      [] prompt = "Cancel" -> "skip"
      [] OTHER -> "proceed"

AfterPrompt_no_exits(prompt) ==
    CASE prompt = "No" -> "exit"
      [] prompt = "Cancel" -> "exit"
      [] OTHER -> "proceed"

AfterPrompt_cancel_proceeds(prompt) ==
    CASE prompt = "No" -> "skip"
      [] OTHER -> "proceed"

\* match prompt { No => continue, Cancel => exit(0), _ => {} }
AfterPrompt(prompt) ==
    CASE prompt = "No" -> "skip"
      [] prompt = "Cancel" -> "exit"
      [] OTHER -> "proceed"

NextObject_skips_one(outcome) == oi + 2

NextObject_break_on_error(outcome) ==
    IF IsErr(outcome) THEN Len(objects) + 1 ELSE oi + 1

NextObject_retries_failed(outcome) == IF IsErr(outcome) THEN oi ELSE oi + 1

\* if let Err(err) = ret { eprintln!(..) }: the loop goes on to the next
\* object whatever the action returned
NextObject(outcome) == oi + 1

AfterInitialize_ignores_errors(outcome) ==
    [failed |-> FALSE,
     criteria |-> IF outcome.kind = "Ok" THEN outcome.criteria ELSE <<>>]

\* self.initialize(state).await?
AfterInitialize(outcome) ==
    [failed |-> outcome.kind # "Ok",
     criteria |-> IF outcome.kind = "Ok" THEN outcome.criteria ELSE <<>>]

\* the resource get_resource can return for a module: bytes that are not
\* JSON of the expected shape, or a JSON array of criterion objects with
\* the keys of their struct, in which some object may also have a key the
\* struct does not declare
NoPayload == [kind |-> "none", items |-> <<>>, unknown_key |-> FALSE]

Payloads(variant) ==
    {[kind |-> "Malformed", items |-> <<>>, unknown_key |-> FALSE]}
    \cup {[kind |-> "Json", items |-> c, unknown_key |-> u] :
            c \in CriteriaLists(variant) \ {<<>>}, u \in BOOLEAN}
    \cup {[kind |-> "Json", items |-> <<>>, unknown_key |-> FALSE]}

HasUnknownKey(resource) == resource.unknown_key

deny_unknown_fields_device_only(variant) == variant = "Device"

\* #[serde(deny_unknown_fields)] on DeviceToUninstall, DriverToUninstall
\* and DriverPackageToUninstall
deny_unknown_fields(variant) ==
    variant \in {"Device", "Driver", "DriverPackage"}

\* serde_json::from_slice::<Vec<..ToUninstall>>(resource.get_content())
from_slice(variant, resource) ==
    IF resource.kind = "Malformed"
       \/ (deny_unknown_fields(variant) /\ HasUnknownKey(resource))
    THEN [kind |-> "ParseError", criteria |-> <<>>]
    ELSE [kind |-> "Ok", criteria |-> resource.items]

\* get_resource (..)? and serde_json::from_slice (..)?
InitializeOutcomes(variant) ==
    {[resource |-> NoPayload,
      outcome |-> [kind |-> "ResolutionError", criteria |-> <<>>]]}
    \cup {[resource |-> r, outcome |-> from_slice(variant, r)] :
            r \in Payloads(variant)}

Initialize ==
    /\ pc = "initialize"
    /\ \E loaded \in InitializeOutcomes(Module) :
          LET outcome == loaded.outcome
              after == AfterInitialize(outcome)
          IN  /\ payload' = loaded.resource
              /\ load_failed' = (outcome.kind # "Ok")
              /\ objects_to_uninstall' = after.criteria
              /\ IF after.failed
                 THEN pc' = "run_returned" /\ run_result' = "Err"
                 ELSE pc' = "get_objects" /\ run_result' = "none"
    /\ enum_failed' = FALSE /\ log' = <<>> /\ chosen' = <<>>
    /\ objects' = <<>> /\ oi' = 0 /\ found' = FALSE
    /\ reboot_required' = FALSE
    /\ UNCHANGED <<resolveVars, superVars, cacheVars, handleVars>>
    /\ UNCHANGED <<REGEX_CACHE, interactive, dry_run, elevated, modules, mi,
                   need_reboot, exit_code, rebooted, reboot_key, cancel_at, m_call,
                   m_ret, uninstalled>>

\* let objects = self.get_objects()?
GetObjectsFails ==
    /\ pc = "get_objects"
    /\ enum_failed' = TRUE
    /\ UNCHANGED <<payload, uninstalled>>
    /\ pc' = "run_returned" /\ run_result' = "Err"
    /\ UNCHANGED <<resolveVars, superVars, cacheVars, handleVars>>
    /\ UNCHANGED <<REGEX_CACHE, interactive, dry_run, elevated, modules, mi,
                   need_reboot, exit_code, rebooted, reboot_key, objects_to_uninstall,
                   objects, oi, found, reboot_required, log, chosen,
                   load_failed, cancel_at, m_call, m_ret>>

GetObjects ==
    /\ pc = "get_objects"
    /\ \E list \in ObjectLists(Module) : objects' = list
    /\ oi' = 1 /\ found' = FALSE /\ reboot_required' = FALSE
    /\ pc' = "consider"
    /\ UNCHANGED <<payload, uninstalled>>
    /\ UNCHANGED <<resolveVars, superVars, cacheVars, handleVars>>
    /\ UNCHANGED <<REGEX_CACHE, interactive, dry_run, elevated, modules, mi,
                   need_reboot, exit_code, rebooted, reboot_key, objects_to_uninstall,
                   run_result, log, chosen, load_failed, enum_failed,
                   cancel_at, m_call, m_ret>>

\* the head of the loop body: should_uninstall, and for a matched object
\* either the way to the prompt or the "Uninstalling" line
Consider ==
    /\ pc = "consider" /\ oi <= Len(objects)
    /\ LET r == should_uninstall(Module, REGEX_CACHE, objects[oi],
                                 objects_to_uninstall)
       IN  /\ REGEX_CACHE' = r.cache
           /\ chosen' = Append(chosen, r.idx)
           /\ IF r.idx = 0
              THEN /\ oi' = oi + 1
                   /\ UNCHANGED <<pc, found, log>>
              ELSE /\ found' = TRUE
                   /\ IF NeedsPrompt
                      THEN pc' = "prompt" /\ UNCHANGED <<oi, log>>
                      ELSE /\ log' = Append(log,
                                  Event("uninstalling", oi, r.idx, "-"))
                           /\ IF InvokesUninstall
                              THEN pc' = "uninstall" /\ UNCHANGED oi
                              ELSE pc' = "consider" /\ oi' = oi + 1
    /\ UNCHANGED <<payload, uninstalled>>
    /\ UNCHANGED <<resolveVars, superVars, cacheVars, handleVars>>
    /\ UNCHANGED <<interactive, dry_run, elevated, modules, mi, need_reboot,
                   exit_code, rebooted, reboot_key, objects_to_uninstall, objects,
                   reboot_required, run_result, load_failed, enum_failed,
                   cancel_at, m_call, m_ret>>

\* terminal::prompt_yes_no and the match on its result
Prompt ==
    /\ pc = "prompt"
    /\ \E prompt \in {"Yes", "No", "Cancel"} :
          LET asked == Append(log, Event("prompt", oi, chosen[oi], prompt))
              todo == AfterPrompt(prompt)
          IN  /\ cancel_at' = IF prompt = "Cancel" THEN <<mi, oi>>
                              ELSE cancel_at
              /\ CASE todo = "skip" ->
                        /\ log' = Append(asked,
                                     Event("skipping", oi, chosen[oi], "-"))
                        /\ oi' = oi + 1 /\ pc' = "consider"
                        /\ UNCHANGED exit_code
                   [] todo = "exit" ->
                        /\ log' = asked
                        /\ pc' = "exited" /\ exit_code' = 0
                        /\ UNCHANGED oi
                   [] todo = "proceed" ->
                        /\ log' = Append(asked,
                                     Event("uninstalling", oi, chosen[oi], "-"))
                        /\ UNCHANGED exit_code
                        /\ IF InvokesUninstall
                           THEN pc' = "uninstall" /\ UNCHANGED oi
                           ELSE pc' = "consider" /\ oi' = oi + 1
    /\ UNCHANGED <<payload, uninstalled>>
    /\ UNCHANGED <<resolveVars, superVars, cacheVars, handleVars>>
    /\ UNCHANGED <<REGEX_CACHE, interactive, dry_run, elevated, modules, mi,
                   need_reboot, rebooted, reboot_key, objects_to_uninstall, objects,
                   found, reboot_required, run_result, chosen, load_failed,
                   enum_failed, m_call, m_ret>>

RebootAfter_also_on_error(outcome) ==
    reboot_required \/ outcome \in {"OkReboot", "UninstallFailed"}

\* if reboot.as_bool() { run_info.reboot_required = true; } after the
\* uninstall call has succeeded; every error path has returned before it
RebootAfter(outcome) == reboot_required \/ outcome = "OkReboot"

\* self.uninstall_object(..).await and the report of its error
Uninstall ==
    /\ pc = "uninstall"
    /\ \E outcome \in UninstallOutcomes(Module, objects[oi],
                                        objects_to_uninstall[chosen[oi]]) :
          LET called == Append(log,
                            Event("uninstall", oi, chosen[oi], outcome))
          IN  /\ uninstalled' = IF outcome \in {"Ok", "OkReboot"}
                                THEN uninstalled + 1 ELSE uninstalled
              /\ IF outcome = "Panic"
                 THEN /\ log' = called
                      /\ pc' = "panicked" /\ exit_code' = 101
                      /\ UNCHANGED <<oi, reboot_required>>
                 ELSE /\ reboot_required' = RebootAfter(outcome)
                      /\ log' = IF IsErr(outcome)
                                THEN Append(called,
                                         Event("eprintln", oi, chosen[oi],
                                               outcome))
                                ELSE called
                      /\ oi' = NextObject(outcome)
                      /\ pc' = "consider"
                      /\ UNCHANGED exit_code
    /\ UNCHANGED payload
    /\ UNCHANGED <<resolveVars, superVars, cacheVars, handleVars>>
    /\ UNCHANGED <<REGEX_CACHE, interactive, dry_run, elevated, modules, mi,
                   need_reboot, rebooted, reboot_key, objects_to_uninstall, objects,
                   found, run_result, chosen, load_failed, enum_failed,
                   cancel_at, m_call, m_ret>>

ReportsNothing_when_none_uninstalled ==
    \A k \in 1..Len(log) :
        ~(log[k].kind = "uninstall" /\ log[k].what \in {"Ok", "OkReboot"})

\* if !found
ReportsNothing == ~found

\* after the loop: the "No .. to uninstall is found." line and
\* Ok(module_run_info)
ReturnOk ==
    /\ pc = "consider" /\ oi > Len(objects)
    /\ log' = IF ReportsNothing
              THEN Append(log, Event("nothing", 0, 0, "-"))
              ELSE log
    /\ run_result' = "Ok"
    /\ pc' = "run_returned"
    /\ UNCHANGED <<payload, uninstalled>>
    /\ UNCHANGED <<resolveVars, superVars, cacheVars, handleVars>>
    /\ UNCHANGED <<REGEX_CACHE, interactive, dry_run, elevated, modules, mi,
                   need_reboot, exit_code, rebooted, reboot_key, objects_to_uninstall,
                   objects, oi, found, reboot_required, chosen, load_failed,
                   enum_failed, cancel_at, m_call, m_ret>>

----------------------------------------------------------------------------
(* The parts of the state that belong to get_resource and to               *)
(* run_uninstall_method, while neither is running                          *)

NotResolved == [kind |-> "none"]
NoPrevious ==
    [use_cache |-> FALSE, allow_updates |-> FALSE, result |-> NotResolved]
NoResult == [kind |-> "none", cause |-> "-"]
NoProcess ==
    [process_id |-> 0, parent_process_id |-> 0, command_line |-> None]
NoDelegate == [some |-> FALSE, v |-> NoProcess]

ResolveIdle ==
    /\ use_cache = FALSE /\ allow_updates = FALSE
    /\ config_dir = FALSE /\ cache_file = None
    /\ EMBEDDED_IDENTIFIERS = None
    /\ r_pc = "idle" /\ r_tried = <<>> /\ r_result = NotResolved
    /\ r_n = 0 /\ r_prev = NoPrevious

SuperIdle ==
    /\ uninstall_method = "Normal"
    /\ u_pc = "idle" /\ u_branch = "none" /\ u_result = NoResult
    /\ ct = FALSE /\ mf_pc = "none" /\ mf_result = NoResult
    /\ process_delegate = "unknown"
    /\ child = "none" /\ delegate = "none"
    /\ main_wait = "none" /\ delegate_wait = "none"
    /\ key_task = "none" /\ keys = 0 /\ launch = "none"
    /\ local_ct = FALSE /\ delegate_info = NoDelegate

Threads == 1..MaxThreads

\* a thread that is not inside cached_match and has not called it yet
IdleThread ==
    [pc |-> "idle", input |-> None, pattern |-> None,
     regex |-> build_regex(<<>>), ret |-> Pending]

NoHandles == [device_info_set |-> 0, process |-> 0]

NoExit == [scope |-> "none", path |-> "none"]

HandleIdle ==
    h_pc = "idle" /\ h_open = NoHandles /\ h_exit = NoExit /\ h_calls = 0

CacheIdle ==
    lock = 0 /\ th = [t \in Threads |-> IdleThread] /\ built = <<>>

----------------------------------------------------------------------------
(* lib.rs: run *)

RunInit ==
    /\ interactive \in BOOLEAN /\ dry_run \in BOOLEAN
    /\ elevated \in BOOLEAN
    /\ modules \in ModuleSelections
    /\ pc = "start" /\ mi = 0 /\ need_reboot = FALSE
    /\ exit_code = -1 /\ rebooted = FALSE /\ reboot_key = "none"
    /\ objects_to_uninstall = <<>> /\ objects = <<>> /\ oi = 0
    /\ found = FALSE /\ reboot_required = FALSE
    /\ run_result = "none" /\ log = <<>> /\ chosen = <<>>
    /\ load_failed = FALSE /\ enum_failed = FALSE /\ cancel_at = <<>>
    /\ payload = NoPayload /\ uninstalled = 0

Init ==
    /\ RunInit
    /\ REGEX_CACHE = EmptyCache
    /\ m_call = Idle /\ m_ret = Pending
    /\ ResolveIdle /\ SuperIdle /\ CacheIdle /\ HandleIdle

moduleVars == <<objects_to_uninstall, objects, oi, found, reboot_required, run_result, log, chosen, load_failed, enum_failed, cancel_at, payload>>

\* the privilege check: only an interactive session leaves here
NotElevatedExit ==
    /\ pc = "start"
    /\ ~dry_run /\ ~elevated /\ interactive
    /\ pc' = "exited" /\ exit_code' = 1
    /\ UNCHANGED <<resolveVars, superVars, cacheVars, handleVars>>
    /\ UNCHANGED <<REGEX_CACHE, interactive, dry_run, elevated, modules, mi,
                   need_reboot, rebooted, reboot_key, moduleVars, uninstalled,
                   m_call, m_ret>>

EnterLoop ==
    /\ pc = "start"
    /\ ~(~dry_run /\ ~elevated /\ interactive)
    /\ mi' = 1
    /\ pc' = IF modules = <<>> THEN "finish" ELSE "initialize"
    /\ UNCHANGED <<resolveVars, superVars, cacheVars, handleVars>>
    /\ UNCHANGED <<REGEX_CACHE, interactive, dry_run, elevated, modules,
                   need_reboot, exit_code, rebooted, reboot_key, moduleVars, uninstalled,
                   m_call, m_ret>>

ModuleFailed_continues ==
    /\ pc = "run_returned" /\ run_result = "Err"
    /\ mi' = mi + 1
    /\ pc' = IF mi = Len(modules) THEN "exited" ELSE "initialize"
    /\ exit_code' = IF mi = Len(modules) THEN 1 ELSE exit_code
    /\ UNCHANGED <<resolveVars, superVars, cacheVars, handleVars>>
    /\ UNCHANGED <<REGEX_CACHE, interactive, dry_run, elevated, modules,
                   need_reboot, rebooted, reboot_key, moduleVars, uninstalled,
                   m_call, m_ret>>

\* Err(error) => { .. std::process::exit(1) }
ModuleFailed ==
    /\ pc = "run_returned" /\ run_result = "Err"
    /\ pc' = "exited" /\ exit_code' = 1
    /\ UNCHANGED <<resolveVars, superVars, cacheVars, handleVars>>
    /\ UNCHANGED <<REGEX_CACHE, interactive, dry_run, elevated, modules, mi,
                   need_reboot, rebooted, reboot_key, moduleVars, uninstalled,
                   m_call, m_ret>>

\* Ok(module_run) if module_run.reboot_required => need_reboot = true
ModuleSucceeded ==
    /\ pc = "run_returned" /\ run_result = "Ok"
    /\ need_reboot' = (need_reboot \/ reboot_required)
    /\ mi' = mi + 1
    /\ pc' = IF mi = Len(modules) THEN "finish" ELSE "initialize"
    /\ UNCHANGED <<resolveVars, superVars, cacheVars, handleVars>>
    /\ UNCHANGED <<REGEX_CACHE, interactive, dry_run, elevated, modules,
                   exit_code, rebooted, reboot_key, moduleVars, uninstalled,
                   m_call, m_ret>>

OffersReboot_noninteractive == need_reboot

\* if run_state.need_reboot { if state.interactive { println!("Press any
\* key to reboot now, or press 'q' to cancel reboot... ")
OffersReboot == need_reboot /\ interactive

\* if key.code == KeyCode::Char('q') { return; }  Command::new("shutdown")
IssuesReboot(key) == OffersReboot /\ key # "q"

\* after the loop: the reboot prompt or the closing key press
Finish ==
    /\ pc = "finish"
    /\ \E key \in {"q", "other"} :
          /\ rebooted' = IssuesReboot(key)
          /\ reboot_key' = IF OffersReboot THEN key ELSE "none"
    /\ pc' = "exited" /\ exit_code' = 0
    /\ UNCHANGED <<resolveVars, superVars, cacheVars, handleVars>>
    /\ UNCHANGED <<REGEX_CACHE, interactive, dry_run, elevated, modules, mi,
                   need_reboot, moduleVars, uninstalled,
                   m_call, m_ret>>

Next ==
    \/ NotElevatedExit \/ EnterLoop
    \/ Initialize \/ GetObjectsFails \/ GetObjects
    \/ Consider \/ Prompt \/ Uninstall \/ ReturnOk
    \/ ModuleFailed \/ ModuleSucceeded \/ Finish

Spec == Init /\ [][Next]_vars

----------------------------------------------------------------------------
(* Observations of a module run used by the claims about Module::run *)

\* a module run is in progress or has just ended: mi names its module and
\* objects, chosen and log are those of this run
RunActive ==
    \/ pc \in {"get_objects", "consider", "prompt", "uninstall",
               "run_returned", "panicked"}
    \/ pc = "exited" /\ mi \in 1..Len(modules)

\* criterion j of the loaded list matches object i of the enumeration
MatchesAt(j, i) ==
    matches(Module, EmptyCache, objects_to_uninstall[j], objects[i]).ret

MatchesSome(i) == \E j \in 1..Len(objects_to_uninstall) : MatchesAt(j, i)

\* the positions in the log of the uninstall calls for object i
UninstallCalls(i) ==
    {k \in 1..Len(log) : log[k].kind = "uninstall" /\ log[k].obj = i}

Answered(i, prompt) ==
    \E k \in 1..Len(log) :
        log[k].kind = "prompt" /\ log[k].obj = i /\ log[k].what = prompt

----------------------------------------------------------------------------
(* C1 *)

\* C1: for every object considered, should_uninstall gave the criterion of
\* the smallest index whose matches() is true for the object, and None (0)
\* when no criterion matches; prompts and uninstall calls for the object
\* carry that criterion.
C1_FirstMatchWins ==
    RunActive =>
        /\ \A i \in 1..Len(chosen) :
              IF MatchesSome(i)
              THEN /\ chosen[i] \in 1..Len(objects_to_uninstall)
                   /\ MatchesAt(chosen[i], i)
                   /\ \A j \in 1..(chosen[i] - 1) : ~MatchesAt(j, i)
              ELSE chosen[i] = 0
        /\ \A k \in 1..Len(log) :
              log[k].obj > 0 => log[k].crit = chosen[log[k].obj]

\* two different criteria both match the first object, and the first one
\* was the one its uninstall was called with
C1_Witness ==
    /\ RunActive /\ Len(chosen) >= 1 /\ Len(objects_to_uninstall) >= 2
    /\ objects_to_uninstall[1] # objects_to_uninstall[2]
    /\ MatchesAt(1, 1) /\ MatchesAt(2, 1)
    /\ chosen[1] = 1
    /\ \E k \in UninstallCalls(1) : log[k].crit = 1

----------------------------------------------------------------------------
(* C2 *)

\* C2: in dry-run mode the uninstall action is never invoked, interactive
\* or not, and the ModuleRunInfo a run returns has reboot_required false.
C2_DryRunNeverUninstalls ==
    dry_run =>
        /\ \A k \in 1..Len(log) : log[k].kind # "uninstall"
        /\ pc # "uninstall"
        /\ reboot_required = FALSE
        /\ need_reboot = FALSE

\* a dry run returned Ok after printing its intent for two matched objects
C2_Witness ==
    /\ dry_run /\ interactive /\ pc = "run_returned" /\ run_result = "Ok"
    /\ Len(objects) = 2 /\ MatchesSome(1) /\ MatchesSome(2)
    /\ Len(log) = 2 /\ log[1].kind = "uninstalling"

----------------------------------------------------------------------------
(* C3 *)

\* C3: once Cancel is answered at a confirmation prompt the process has
\* exited with code 0 and stays as the answer left it: no uninstall call
\* for that object or a later one, no later module, no reboot.
C3_CancelTerminates ==
    cancel_at # <<>> =>
        /\ pc = "exited" /\ exit_code = 0
        /\ mi = cancel_at[1] /\ oi = cancel_at[2]
        /\ log[Len(log)].kind = "prompt" /\ log[Len(log)].what = "Cancel"
        /\ \A k \in 1..Len(log) :
              log[k].kind = "uninstall" => log[k].obj < cancel_at[2]
        /\ ~rebooted

\* Cancel was answered for the first object of the first module while a
\* matching second object and a second module were still to come
C3_Witness ==
    /\ cancel_at = <<1, 1>> /\ pc = "exited"
    /\ Len(modules) >= 2 /\ Len(objects) = 2 /\ MatchesSome(2)

----------------------------------------------------------------------------
(* C4 *)

Confirmed(i) == ~dry_run /\ (~interactive \/ Answered(i, "Yes"))

SomeUninstallFailed ==
    \E k \in 1..Len(log) : log[k].kind = "uninstall" /\ IsErr(log[k].what)

\* C4: an uninstall action that returned an error does not end the run:
\* the loop goes on without passing over any object, and the run returns
\* Ok with every object considered and the action invoked for every
\* matched and confirmed one.
C4_UninstallErrorNotFatal ==
    /\ (pc = "consider" /\ SomeUninstallFailed) => Len(chosen) = oi - 1
    /\ (pc = "run_returned" /\ SomeUninstallFailed)
           => /\ run_result = "Ok"
              /\ Len(chosen) = Len(objects)
              /\ \A i \in 1..Len(objects) :
                    (MatchesSome(i) /\ Confirmed(i))
                        => UninstallCalls(i) # {}

\* the action failed for the first object, was still invoked for the
\* second, and the run returned Ok
C4_Witness ==
    /\ pc = "run_returned" /\ run_result = "Ok"
    /\ \E k \in UninstallCalls(1) : IsErr(log[k].what)
    /\ UninstallCalls(2) # {}

----------------------------------------------------------------------------
(* C5 *)

\* C5: a module run returns an error exactly when criteria loading or the
\* enumeration failed, and then nothing was prompted for or uninstalled.
C5_RunFailsOnlyOnLoadOrEnumeration ==
    pc = "run_returned" =>
        /\ (run_result = "Err") = (load_failed \/ enum_failed)
        /\ run_result = "Err" => (log = <<>> /\ chosen = <<>>)

\* the enumeration failed after a non-empty criteria list was loaded
C5_Witness ==
    /\ pc = "run_returned" /\ run_result = "Err"
    /\ enum_failed /\ ~load_failed /\ objects_to_uninstall # <<>>

----------------------------------------------------------------------------
(* C6 *)

\* C6: in a non-interactive run that is not a dry run the uninstall action
\* is invoked once for every object considered that matches a criterion,
\* and never for an object that matches none.
C6_OncePerMatchedObject ==
    (RunActive /\ ~interactive /\ ~dry_run) =>
        /\ \A i \in 1..Len(objects) :
              /\ Cardinality(UninstallCalls(i)) <= 1
              /\ ~MatchesSome(i) => UninstallCalls(i) = {}
        /\ pc \in {"consider", "run_returned"} =>
              \A i \in 1..(oi - 1) :
                  MatchesSome(i) => Cardinality(UninstallCalls(i)) = 1

\* the two-device scenario: only the first device's hardware id contains
\* the pattern, and the action ran once, for the first device
C6_Witness ==
    /\ ~interactive /\ ~dry_run
    /\ pc = "run_returned" /\ run_result = "Ok" /\ Module = "Device"
    /\ Len(objects) = 2 /\ Len(objects_to_uninstall) = 1
    /\ objects_to_uninstall[1].hardware_id.some
    /\ MatchesSome(1) /\ ~MatchesSome(2)
    /\ objects[2].hardware_ids # <<>>
    /\ Cardinality(UninstallCalls(1)) = 1 /\ UninstallCalls(2) = {}
    /\ Cardinality({k \in 1..Len(log) : log[k].kind = "uninstall"}) = 1

----------------------------------------------------------------------------
(* One application of a matching function to inputs drawn from bounded     *)
(* sets.  REGEX_CACHE starts empty or already holding the call's pattern   *)
(* (the state an earlier call with the same pattern text leaves).          *)

OptStrings == {None} \cup {Some(s) : s \in SeqsUpTo(Alphabet, MaxLen)}
OptPatterns == {None} \cup {Some(p) : p \in SeqsUpTo(Atoms, MaxPatLen)}

WacomPattern == <<Lit("w"), Lit("a"), Lit("c"), Lit("o"), Lit("m")>>
WacomTechnology ==
    <<"W", "A", "C", "O", "M", " ", "T", "e", "c", "h", "n", "o", "l", "o",
      "g", "y">>

FieldVals == {None, Some(<<"a">>), Some(<<"A", "b">>)}
FieldPats == {None, Some(<<Lit("a")>>), Some(<<Lit("b")>>)}
OptUuids == {None} \cup {Some(u) : u \in Uuids}
RawHardwareIds ==
    {None} \cup {Some(s) : s \in SeqsUpTo({"a", "b", NUL}, MaxHwLen)}
UninstallMethods == {"Normal", "Deferred", "RegistryOnly"}

DeviceCriteria ==
    [friendly_name : {"X"}, device_desc : FieldPats, manufacturer : FieldPats,
     hardware_id : FieldPats, class_uuid : OptUuids]
DriverCriteria ==
    [friendly_name : {"X"}, original_name : FieldPats, provider : FieldPats,
     class : OptUuids]
DriverPackageCriteria ==
    [friendly_name : {"X"}, display_name : FieldPats,
     display_version : FieldPats, publisher : FieldPats,
     uninstall_method : UninstallMethods]

CachedMatchCalls ==
    [op : {"cached_match"}, input : OptStrings, pattern : OptPatterns]
    \cup {[op |-> "cached_match", input |-> Some(WacomTechnology),
           pattern |-> Some(WacomPattern)]}
DeviceCalls ==
    [op : {"Device"}, self : DeviceCriteria, hardware_ids : RawHardwareIds,
     description : FieldVals, manufacturer : FieldVals, class_guid : Uuids]
DriverCalls ==
    [op : {"Driver"}, self : DriverCriteria, inf_original_name : FieldVals,
     provider : FieldVals, class_guid : Uuids]
DriverPackageCalls ==
    [op : {"DriverPackage"}, self : DriverPackageCriteria,
     display_name : FieldVals, display_version : FieldVals,
     publisher : FieldVals]

MatchCalls == CachedMatchCalls \cup DeviceCalls \cup DriverCalls
              \cup DriverPackageCalls

\* the pattern text the call looks up first, if any
FirstPattern(call) ==
    CASE call.op = "cached_match" -> call.pattern
      [] call.op = "Device" -> call.self.device_desc
      [] call.op = "Driver" -> call.self.original_name
      [] call.op = "DriverPackage" -> call.self.display_name

WarmCache(pattern) == cached_match(EmptyCache, Some(<<>>), pattern).cache

\* the object a call is about, built by the variant's constructor
CallObject(call) ==
    CASE call.op = "Device" ->
             Device_new("dev", call.hardware_ids, call.description,
                        call.manufacturer, call.class_guid)
      [] call.op = "Driver" ->
             Driver_new("oem1.inf", call.inf_original_name,
                        call.inf_original_name, call.provider,
                        call.class_guid)
      [] call.op = "DriverPackage" ->
             DriverPackage_new("key", call.display_name,
                               call.display_version, call.publisher, None)

RunIdleRest ==
    /\ dry_run = FALSE /\ elevated = TRUE
    /\ modules = <<>> /\ pc = "idle" /\ mi = 0 /\ need_reboot = FALSE
    /\ exit_code = -1 /\ rebooted = FALSE /\ reboot_key = "none"
    /\ objects_to_uninstall = <<>> /\ objects = <<>> /\ oi = 0
    /\ found = FALSE /\ reboot_required = FALSE
    /\ run_result = "none" /\ log = <<>> /\ chosen = <<>>
    /\ load_failed = FALSE /\ enum_failed = FALSE /\ cancel_at = <<>>
    /\ payload = NoPayload /\ uninstalled = 0

RunIdle == interactive = FALSE /\ RunIdleRest

MatchInit ==
    /\ m_call \in MatchCalls
    /\ m_ret = Pending
    /\ REGEX_CACHE \in {EmptyCache, WarmCache(FirstPattern(m_call))}
    /\ RunIdle /\ ResolveIdle /\ SuperIdle /\ CacheIdle /\ HandleIdle

ApplyCachedMatch ==
    /\ m_call.op = "cached_match" /\ ~m_ret.done
    /\ LET r == cached_match(REGEX_CACHE, m_call.input, m_call.pattern)
       IN  /\ m_ret' = [done |-> TRUE, ret |-> r.ret]
           /\ REGEX_CACHE' = r.cache
    /\ UNCHANGED <<resolveVars, superVars, cacheVars, handleVars>>
    /\ UNCHANGED <<m_call, runVars>>

ApplyMatches ==
    /\ m_call.op \in {"Device", "Driver", "DriverPackage"} /\ ~m_ret.done
    /\ LET r == matches(m_call.op, REGEX_CACHE, m_call.self,
                        CallObject(m_call))
       IN  /\ m_ret' = [done |-> TRUE, ret |-> r.ret]
           /\ REGEX_CACHE' = r.cache
    /\ UNCHANGED <<resolveVars, superVars, cacheVars, handleVars>>
    /\ UNCHANGED <<m_call, runVars>>

MatchNext == ApplyCachedMatch \/ ApplyMatches

MatchSpec == MatchInit /\ [][MatchNext]_vars

----------------------------------------------------------------------------
(* services/identifiers.rs: the three-tier resource resolution.            *)
(* The file system around the program is config_dir (the "config"          *)
(* directory next to the executable exists) and cache_file (the bytes of   *)
(* config/<identifier>, if the file exists); EMBEDDED_IDENTIFIERS is the   *)
(* embedded copy of the identifier, if the build has one.  What the        *)
(* operating system and the network answer is chosen at each step.         *)

Contents == {"old", "new"}          \* byte strings a source can hold
Truncated == ""                     \* a file created and not written
OptContents == {None} \cup {Some(c) : c \in Contents}

RetrievalOk(source, content) ==
    [kind |-> "Ok", source |-> source, content |-> content]
RetrievalErr(err, method) ==
    [kind |-> "Err", err |-> err, method |-> method, content |-> Truncated]
RetrievalPanic(method) ==
    [kind |-> "Panic", err |-> "unwrap", method |-> method,
     content |-> Truncated]

\* answers of the file system to one tier: create_dir_all, File::open,
\* read_to_end, File::create, write_all
IoAnswers ==
    [mkdir : BOOLEAN, open : BOOLEAN, read : BOOLEAN, create : BOOLEAN,
     write : BOOLEAN]
IoFine ==
    [mkdir |-> TRUE, open |-> TRUE, read |-> TRUE, create |-> TRUE,
     write |-> TRUE]

\* answers of the network to reqwest::get and response.bytes()
NetAnswers ==
    {[kind |-> "TransportError", body |-> Truncated],
     [kind |-> "BadStatus", body |-> Truncated],
     [kind |-> "BodyError", body |-> Truncated]}
    \cup {[kind |-> "Success", body |-> c] : c \in Contents}
NetNone == [kind |-> "NotAsked", body |-> Truncated]

\* each returns [res, dir, file]: the result and the file system after it
get_resource_offline(io) ==
    IF ~use_cache
    THEN [res |-> RetrievalErr("Disallowed", "offline"),
          dir |-> config_dir, file |-> cache_file]
    ELSE IF ~config_dir
    THEN IF io.mkdir
         THEN [res |-> RetrievalErr("Err", "offline"),
               dir |-> TRUE, file |-> cache_file]
         ELSE [res |-> RetrievalPanic("offline"),
               dir |-> FALSE, file |-> cache_file]
    ELSE IF ~cache_file.some \/ ~io.open \/ ~io.read
    THEN [res |-> RetrievalErr("Err", "offline"),
          dir |-> config_dir, file |-> cache_file]
    ELSE [res |-> RetrievalOk("Local", cache_file.v),
          dir |-> config_dir, file |-> cache_file]

get_resource_online_always_caches(net, io) ==
    IF ~allow_updates
    THEN [res |-> RetrievalErr("Disallowed", "online"),
          dir |-> config_dir, file |-> cache_file]
    ELSE IF net.kind # "Success"
    THEN [res |-> RetrievalErr("Err", "online"),
          dir |-> config_dir, file |-> cache_file]
    ELSE IF ~config_dir \/ ~io.create
    THEN [res |-> RetrievalErr("Err", "online"),
          dir |-> config_dir, file |-> cache_file]
    ELSE IF ~io.write
    THEN [res |-> RetrievalPanic("online"),
          dir |-> config_dir, file |-> Some(Truncated)]
    ELSE [res |-> RetrievalOk("Remote", net.body),
          dir |-> config_dir, file |-> Some(net.body)]

get_resource_online_never_caches(net, io) ==
    IF ~allow_updates
    THEN [res |-> RetrievalErr("Disallowed", "online"),
          dir |-> config_dir, file |-> cache_file]
    ELSE IF net.kind # "Success"
    THEN [res |-> RetrievalErr("Err", "online"),
          dir |-> config_dir, file |-> cache_file]
    ELSE [res |-> RetrievalOk("Remote", net.body),
          dir |-> config_dir, file |-> cache_file]

get_resource_online(net, io) ==
    IF ~allow_updates
    THEN [res |-> RetrievalErr("Disallowed", "online"),
          dir |-> config_dir, file |-> cache_file]
    ELSE IF net.kind # "Success"
    THEN [res |-> RetrievalErr("Err", "online"),
          dir |-> config_dir, file |-> cache_file]
    ELSE IF ~use_cache
    THEN [res |-> RetrievalOk("Remote", net.body),
          dir |-> config_dir, file |-> cache_file]
    ELSE IF ~config_dir \/ ~io.create
    THEN [res |-> RetrievalErr("Err", "online"),
          dir |-> config_dir, file |-> cache_file]
    ELSE IF ~io.write
    THEN [res |-> RetrievalPanic("online"),
          dir |-> config_dir, file |-> Some(Truncated)]
    ELSE [res |-> RetrievalOk("Remote", net.body),
          dir |-> config_dir, file |-> Some(net.body)]

get_resource_embed ==
    IF EMBEDDED_IDENTIFIERS.some
    THEN [res |-> RetrievalOk("Embed", EMBEDDED_IDENTIFIERS.v),
          dir |-> config_dir, file |-> cache_file]
    ELSE [res |-> RetrievalErr("Err", "embedded"),
          dir |-> config_dir, file |-> cache_file]

\* get_resource: Ok(resource) => return Ok(resource); Err => next tier
AfterOffline_never_returns(res) ==
    IF res.kind = "Panic" THEN "panicked" ELSE "online"

AfterOffline(res) ==
    CASE res.kind = "Ok" -> "done"
      [] res.kind = "Panic" -> "panicked"
      [] OTHER -> "online"

AfterOnline_returns_error(res) ==
    CASE res.kind = "Ok" -> "done"
      [] res.kind = "Panic" -> "panicked"
      [] res.err = "Disallowed" -> "embed"
      [] OTHER -> "done"

AfterOnline(res) ==
    CASE res.kind = "Ok" -> "done"
      [] res.kind = "Panic" -> "panicked"
      [] OTHER -> "embed"

Attempt(tier, io, net, out) ==
    [tier |-> tier, dir |-> config_dir, file |-> cache_file, io |-> io,
     net |-> net, res |-> out.res]

ResolveOffline ==
    /\ r_pc = "offline"
    /\ \E io \in IoAnswers :
          /\ io.create /\ io.write
          /\ LET out == get_resource_offline(io)
                 to == AfterOffline(out.res)
             IN  /\ r_tried' = Append(r_tried,
                                      Attempt("offline", io, NetNone, out))
                 /\ config_dir' = out.dir /\ cache_file' = out.file
                 /\ r_pc' = to
                 /\ r_result' = IF to = "online" THEN r_result ELSE out.res
    /\ UNCHANGED <<use_cache, allow_updates, EMBEDDED_IDENTIFIERS, r_n,
                   r_prev>>
    /\ UNCHANGED <<REGEX_CACHE, runVars, m_call, m_ret, superVars,
                   cacheVars, handleVars>>

ResolveOnline ==
    /\ r_pc = "online"
    /\ \E io \in IoAnswers,
          net \in IF allow_updates THEN NetAnswers ELSE {NetNone} :
          /\ io.mkdir /\ io.open /\ io.read
          /\ LET out == get_resource_online(net, io)
                 to == AfterOnline(out.res)
             IN  /\ r_tried' = Append(r_tried,
                                      Attempt("online", io, net, out))
                 /\ config_dir' = out.dir /\ cache_file' = out.file
                 /\ r_pc' = to
                 /\ r_result' = IF to = "embed" THEN r_result ELSE out.res
    /\ UNCHANGED <<use_cache, allow_updates, EMBEDDED_IDENTIFIERS, r_n,
                   r_prev>>
    /\ UNCHANGED <<REGEX_CACHE, runVars, m_call, m_ret, superVars,
                   cacheVars, handleVars>>

ResolveEmbed ==
    /\ r_pc = "embed"
    /\ LET out == get_resource_embed
       IN  /\ r_tried' = Append(r_tried,
                                Attempt("embedded", IoFine, NetNone, out))
           /\ r_result' = out.res
    /\ r_pc' = "done"
    /\ UNCHANGED <<use_cache, allow_updates, config_dir, cache_file,
                   EMBEDDED_IDENTIFIERS, r_n, r_prev>>
    /\ UNCHANGED <<REGEX_CACHE, runVars, m_call, m_ret, superVars,
                   cacheVars, handleVars>>

ResolveInit ==
    /\ use_cache \in BOOLEAN /\ allow_updates \in BOOLEAN
    /\ config_dir \in BOOLEAN
    /\ cache_file \in OptContents \cup {Some(Truncated)}
    /\ cache_file.some => config_dir
    /\ EMBEDDED_IDENTIFIERS \in OptContents
    /\ r_pc = "offline" /\ r_tried = <<>> /\ r_result = NotResolved
    /\ r_n = 1 /\ r_prev = NoPrevious
    /\ RunIdle /\ REGEX_CACHE = EmptyCache /\ CacheIdle /\ HandleIdle
    /\ m_call = Idle /\ m_ret = Pending
    /\ SuperIdle

\* the program is run again: get_resource is entered for the same
\* identifier with the State of the new run, over the file system the
\* earlier run has left
ResolveAgain ==
    /\ r_pc \in {"done", "panicked"} /\ r_n < MaxResolutions
    /\ r_prev' = [use_cache |-> use_cache, allow_updates |-> allow_updates,
                  result |-> r_result]
    /\ r_n' = r_n + 1
    /\ use_cache' \in BOOLEAN /\ allow_updates' \in BOOLEAN
    /\ r_pc' = "offline" /\ r_tried' = <<>> /\ r_result' = NotResolved
    /\ UNCHANGED <<config_dir, cache_file, EMBEDDED_IDENTIFIERS>>
    /\ UNCHANGED <<REGEX_CACHE, runVars, m_call, m_ret, superVars,
                   cacheVars, handleVars>>

ResolveNext ==
    ResolveOffline \/ ResolveOnline \/ ResolveEmbed \/ ResolveAgain

ResolveSpec == ResolveInit /\ [][ResolveNext]_vars

----------------------------------------------------------------------------
(* Claims about get_resource *)

Resolved == r_pc = "done"

Tried(tier) == \E k \in 1..Len(r_tried) : r_tried[k].tier = tier

\* the attempt of a tier, once it has been made
AttemptOf(tier) ==
    r_tried[CHOOSE k \in 1..Len(r_tried) : r_tried[k].tier = tier]

\* the cache file was there and the file system let it be opened and read
CacheReadable(a) ==
    use_cache /\ a.dir /\ a.file.some /\ a.io.open /\ a.io.read

\* C11: with caching enabled and a readable cache file, get_resource
\* returns the cached bytes tagged Local and attempts neither the online
\* fetch nor the embedded lookup, whether or not updates are allowed.
C11_OfflineShortCircuits ==
    (Tried("offline") /\ CacheReadable(AttemptOf("offline")))
        => /\ Resolved
           /\ r_result = RetrievalOk("Local", AttemptOf("offline").file.v)
           /\ Len(r_tried) = 1
           /\ cache_file = AttemptOf("offline").file

\* updates are allowed and an embedded copy with other bytes exists, and
\* the cached bytes were returned
C11_Witness ==
    /\ Resolved /\ allow_updates /\ use_cache
    /\ cache_file = Some("old") /\ EMBEDDED_IDENTIFIERS = Some("new")
    /\ r_result = RetrievalOk("Local", "old")

\* the online tier was disabled, met a transport error or got a
\* non-success status
OnlineUnavailable(a) ==
    \/ ~allow_updates
    \/ a.net.kind \in {"TransportError", "BadStatus"}

\* C12: with the offline tier disabled and the online tier disabled or
\* failing on transport or on a non-success status, get_resource goes on
\* to the embedded tier and returns the embedded content tagged Embed.
C12_FallsBackToEmbedded ==
    (~use_cache /\ Tried("online") /\ OnlineUnavailable(AttemptOf("online"))
     /\ EMBEDDED_IDENTIFIERS.some)
        => /\ r_pc \in {"embed", "done"}
           /\ Resolved =>
                 /\ r_result = RetrievalOk("Embed", EMBEDDED_IDENTIFIERS.v)
                 /\ Len(r_tried) = 3

\* the server answered with a non-success status and the embedded bytes
\* were returned
C12_Witness ==
    /\ Resolved /\ ~use_cache /\ allow_updates
    /\ Tried("online") /\ AttemptOf("online").net.kind = "BadStatus"
    /\ r_result = RetrievalOk("Embed", "new")

\* C13: a failure of the offline or online tier (disabled, missing
\* directory or file, read error, transport error) goes on to the next
\* tier and never ends the resolution; get_resource fails only when all
\* three tiers failed, and then with the embedded tier's error.
C13_FailsOnlyIfAllTiersFail ==
    /\ (Tried("offline") /\ AttemptOf("offline").res.kind # "Ok")
           => (r_pc = "online" \/ Tried("online"))
    /\ (Tried("online") /\ AttemptOf("online").res.kind = "Err")
           => (r_pc = "embed" \/ Tried("embedded"))
    /\ (Resolved /\ r_result.kind = "Err")
           => /\ Len(r_tried) = 3
              /\ \A k \in 1..3 : r_tried[k].res.kind = "Err"
              /\ r_result = RetrievalErr("Err", "embedded")

\* C14: when the online fetch succeeded and caching is enabled, failing to
\* create or write the cache file does not fail the resolution:
\* get_resource returns the fetched bytes tagged Remote.
C14_CacheWriteFailureNotFatal ==
    (Tried("online") /\ allow_updates /\ use_cache
     /\ AttemptOf("online").net.kind = "Success")
        => /\ Resolved
           /\ r_result = RetrievalOk("Remote", AttemptOf("online").net.body)

----------------------------------------------------------------------------
(* driver_package_cleanup.rs: run_uninstall_method with uninstall_normal   *)
(* or uninstall_deferred, the tasks they spawn and the processes they      *)
(* watch.  The tasks created with tokio::spawn (the key reader of          *)
(* read_key_async, the try_wait loop of wait_for_process_async) run on     *)
(* their own and are not stopped when the future that awaits them is       *)
(* dropped; the wait on the delegate is polled inside the method's own     *)
(* future and stops with it.                                               *)

UninstallOk == [kind |-> "Ok", cause |-> "-"]
AlreadyUninstalled == [kind |-> "AlreadyUninstalled", cause |-> "-"]
UninstallFailed(cause) == [kind |-> "UninstallFailed", cause |-> cause]

\* if state.interactive { tokio::select! { .., wait_for_user(..) } }
StartsKeyRace_always == TRUE

StartsKeyRace == interactive

\* _ = wait_for_user(ct.child_token()) => { result = Ok(()) }
UserBranchResult_cancelled == UninstallFailed("cancelled")

UserBranchResult == UninstallOk

\* ct.cancel() after the select!
TokenAfterSelect_unchanged(cancelled) == cancelled

TokenAfterSelect(cancelled) == TRUE

\* if let Some(process_delegate) = process_delegate { tokio::join!(..) }
WaitsOnDelegate_always(is_found) == TRUE

WaitsOnDelegate(is_found) == is_found

\* tokio::join! completes when both waits have completed
JoinReady_either(mw, dw) ==
    mw \in {"Ok", "Err"} \/ dw \in {"Ok", "Failed", "Timeout"}

JoinReady(mw, dw) ==
    mw \in {"Ok", "Err"} /\ dw \in {"Ok", "Failed", "Timeout"}

\* match results { (Ok, Ok) => {}, (Err, _) => .., (_, Err) => .. }
JoinResult(mw, dw) ==
    CASE mw = "Err" -> UninstallFailed("main")
      [] dw \in {"Failed", "Timeout"} -> UninstallFailed("delegate")
      [] OTHER -> UninstallOk

\* ---- the process table and the search for the delegate -----------------

ChildId == 1            \* child.id() of the launched uninstaller
TargetDir == <<"d", "r">>   \* the directory of the uninstaller's program

CommandLines == {None, Some(<<"d">>), Some(<<"x", "d", "r">>)}

ProcessInfos ==
    [process_id : {2, 3}, parent_process_id : {ChildId, 4},
     command_line : CommandLines]

\* what get_process_infos() can return besides the uninstaller itself
ProcessTables ==
    {t \in UNION {[1..n -> ProcessInfos] : n \in 0..MaxProcesses} :
        \A k, l \in 1..Len(t) :
            k # l => t[k].process_id # t[l].process_id}

\* str::contains
contains(string, part) ==
    \E k \in 0..(Len(string) - Len(part)) :
        SubSeq(string, k + 1, k + Len(part)) = part

\* p.command_line.as_ref().map_or(false, |p| p.contains(&target_dir))
CommandLineHas(p, target_dir) ==
    p.command_line.some /\ contains(p.command_line.v, target_dir)

\* the entry under which the process started by the uninstaller shows
IsDelegateEntry(p) ==
    p.parent_process_id = ChildId /\ CommandLineHas(p, TargetDir)

find_delegate_any_parent(processes, id, target_dir) ==
    LET hits == {k \in 1..Len(processes) :
                    CommandLineHas(processes[k], target_dir)}
    IN  IF hits = {} THEN NoDelegate
        ELSE [some |-> TRUE,
              v |-> processes[CHOOSE k \in hits : \A l \in hits : k <= l]]

\* processes.iter().filter(|p| p.parent_process_id == id).find(|p| ..)
find_delegate(processes, id, target_dir) ==
    LET hits == {k \in 1..Len(processes) :
                    /\ processes[k].parent_process_id = id
                    /\ CommandLineHas(processes[k], target_dir)}
    IN  IF hits = {} THEN NoDelegate
        ELSE [some |-> TRUE,
              v |-> processes[CHOOSE k \in hits : \A l \in hits : k <= l]]

\* the state of the token of line 309 at a point of uninstall_deferred:
\* CancellationToken::new() is not cancelled, ct.cancel() comes after the
\* match on (Ok, Ok)
LocalTokenAt_created(point) == TRUE

LocalTokenAt(point) == point = "joined_ok"

\* wait_for_process_async(child).await ... ?  ; Ok(())
MainWaitResult(mw) ==
    IF mw = "Ok" THEN UninstallOk ELSE UninstallFailed("main")

\* ---- the operating system and the user ---------------------------------

\* the launched uninstaller starts another process
DelegateStarts ==
    /\ child = "running" /\ delegate = "none"
    /\ delegate' = "running"
    /\ UNCHANGED <<local_ct, delegate_info, uninstall_method, launch, u_pc, u_branch, u_result, ct, mf_pc,
                   mf_result, process_delegate, child, main_wait,
                   delegate_wait, key_task, keys>>
    /\ UNCHANGED <<REGEX_CACHE, runVars, m_call, m_ret, resolveVars,
                   cacheVars, handleVars>>

ChildExits ==
    /\ child = "running"
    /\ child' = "exited"
    /\ UNCHANGED <<local_ct, delegate_info, uninstall_method, launch, u_pc, u_branch, u_result, ct, mf_pc,
                   mf_result, process_delegate, delegate, main_wait,
                   delegate_wait, key_task, keys>>
    /\ UNCHANGED <<REGEX_CACHE, runVars, m_call, m_ret, resolveVars,
                   cacheVars, handleVars>>

DelegateExits ==
    /\ delegate = "running"
    /\ delegate' = "exited"
    /\ UNCHANGED <<local_ct, delegate_info, uninstall_method, launch, u_pc, u_branch, u_result, ct, mf_pc,
                   mf_result, process_delegate, child, main_wait,
                   delegate_wait, key_task, keys>>
    /\ UNCHANGED <<REGEX_CACHE, runVars, m_call, m_ret, resolveVars,
                   cacheVars, handleVars>>

UserPressesKey ==
    /\ u_pc \notin {"idle", "start"} /\ keys < MaxKeys
    /\ keys' = keys + 1
    /\ UNCHANGED <<local_ct, delegate_info, uninstall_method, launch, u_pc, u_branch, u_result, ct, mf_pc,
                   mf_result, process_delegate, child, delegate, main_wait,
                   delegate_wait, key_task>>
    /\ UNCHANGED <<REGEX_CACHE, runVars, m_call, m_ret, resolveVars,
                   cacheVars, handleVars>>

\* ---- run_uninstall_method ----------------------------------------------

\* let ct = CancellationToken::new(); the method future is created and,
\* in an interactive session, wait_for_user beside it
StartUninstall ==
    /\ u_pc = "start"
    /\ u_pc' = "running" /\ mf_pc' = "spawn"
    /\ key_task' = IF StartsKeyRace THEN "created" ELSE "none"
    /\ UNCHANGED <<local_ct, delegate_info, uninstall_method, launch, u_branch, u_result, ct, mf_result,
                   process_delegate, child, delegate, main_wait,
                   delegate_wait, keys>>
    /\ UNCHANGED <<REGEX_CACHE, runVars, m_call, m_ret, resolveVars,
                   cacheVars, handleVars>>

\* the first poll of wait_for_user: the message is printed and
\* read_key_async spawns the key-reading task
WaitForUser ==
    /\ u_pc = "running" /\ key_task = "created"
    /\ key_task' = "check"
    /\ UNCHANGED <<local_ct, delegate_info, uninstall_method, launch, u_pc, u_branch, u_result, ct, mf_pc,
                   mf_result, process_delegate, child, delegate, main_wait,
                   delegate_wait, keys>>
    /\ UNCHANGED <<REGEX_CACHE, runVars, m_call, m_ret, resolveVars,
                   cacheVars, handleVars>>

LaunchError_always_failed(kind) == UninstallFailed("spawn")

\* Err(err) => match err.kind() { ErrorKind::NotFound => bail!(
\* AlreadyUninstalled), _ => return Err(..UninstallFailed) }
LaunchError(kind) ==
    IF kind = "NotFound" THEN AlreadyUninstalled
    ELSE UninstallFailed("spawn")

\* object.uninstall_string().unwrap(); to_command(..).spawn()
MethodSpawn ==
    /\ u_pc = "running" /\ mf_pc = "spawn"
    /\ \E answer \in {"NoUninstallString", "NotFound", "OtherError",
                      "Spawned"} :
          /\ launch' = answer
          /\ CASE answer = "NoUninstallString" ->
                      /\ u_pc' = "panicked" /\ mf_pc' = "panicked"
                      /\ UNCHANGED <<mf_result, child, main_wait>>
               [] answer \in {"NotFound", "OtherError"} ->
                      /\ mf_pc' = "done" /\ mf_result' = LaunchError(answer)
                      /\ UNCHANGED <<u_pc, child, main_wait>>
               [] OTHER ->
                      /\ child' = "running"
                      /\ IF uninstall_method = "Normal"
                         THEN mf_pc' = "wait_main" /\ main_wait' = "polling"
                         ELSE mf_pc' = "sleep" /\ UNCHANGED main_wait
                      /\ UNCHANGED <<u_pc, mf_result>>
    /\ UNCHANGED <<uninstall_method, u_branch, u_result, ct,
                   process_delegate, delegate, delegate_wait, key_task,
                   keys, local_ct, delegate_info>>
    /\ UNCHANGED <<REGEX_CACHE, runVars, m_call, m_ret, resolveVars,
                   cacheVars, handleVars>>

\* uninstall_deferred after the 0.5 s sleep: get_process_infos().unwrap(),
\* the search for a direct child whose command line has the program's
\* directory, and the start of the waits
MethodScan ==
    /\ u_pc = "running" /\ mf_pc = "sleep"
    /\ \/ /\ u_pc' = "panicked" /\ mf_pc' = "panicked"
          /\ UNCHANGED <<process_delegate, main_wait, delegate_wait,
                         delegate_info, local_ct>>
       \/ \E processes \in ProcessTables :
             LET picked == find_delegate(processes, ChildId, TargetDir)
             IN  /\ (\E k \in 1..Len(processes) :
                         IsDelegateEntry(processes[k]))
                        => delegate = "running"
                 /\ delegate_info' = picked
                 /\ process_delegate' = IF picked.some THEN "found"
                                        ELSE "none"
                 /\ main_wait' = "polling"
                 /\ delegate_wait' = IF WaitsOnDelegate(picked.some)
                                     THEN "polling" ELSE "none"
                 /\ local_ct' = IF WaitsOnDelegate(picked.some)
                                THEN LocalTokenAt("created") ELSE local_ct
                 /\ mf_pc' = IF WaitsOnDelegate(picked.some)
                             THEN "join" ELSE "wait_main"
                 /\ UNCHANGED u_pc
    /\ UNCHANGED <<uninstall_method, launch, u_branch, u_result, ct, mf_result,
                   child, delegate, key_task, keys>>
    /\ UNCHANGED <<REGEX_CACHE, runVars, m_call, m_ret, resolveVars,
                   cacheVars, handleVars>>

\* the task spawned by wait_for_process_async(child): child.try_wait()
MainWaitPoll ==
    /\ main_wait = "polling" /\ u_pc # "panicked"
    /\ \/ child = "exited" /\ main_wait' = "Ok"
       \/ main_wait' = "Err"
    /\ UNCHANGED <<local_ct, delegate_info, uninstall_method, launch, u_pc, u_branch, u_result, ct, mf_pc,
                   mf_result, process_delegate, child, delegate,
                   delegate_wait, key_task, keys>>
    /\ UNCHANGED <<REGEX_CACHE, runVars, m_call, m_ret, resolveVars,
                   cacheVars, handleVars>>

\* services::windows::wait_for_process_async(pid, Some(ct.child_token()))
\* with the ct created at line 309: OpenProcess or the wait fails, the
\* process is gone, or WAIT_TIMEOUT with the token cancelled
DelegateWaitPoll ==
    /\ u_pc = "running" /\ mf_pc = "join" /\ delegate_wait = "polling"
    /\ \/ delegate = "exited" /\ delegate_wait' = "Ok"
       \/ delegate_wait' = "Failed"
       \/ delegate # "exited" /\ local_ct /\ delegate_wait' = "Timeout"
    /\ UNCHANGED <<local_ct, delegate_info, uninstall_method, launch, u_pc, u_branch, u_result, ct, mf_pc,
                   mf_result, process_delegate, child, delegate, main_wait,
                   key_task, keys>>
    /\ UNCHANGED <<REGEX_CACHE, runVars, m_call, m_ret, resolveVars,
                   cacheVars, handleVars>>

\* the method's future completes
MethodComplete ==
    /\ u_pc = "running"
    /\ \/ /\ mf_pc = "wait_main" /\ main_wait \in {"Ok", "Err"}
          /\ mf_result' = MainWaitResult(main_wait)
          /\ UNCHANGED <<delegate_wait, local_ct>>
       \/ /\ mf_pc = "join" /\ JoinReady(main_wait, delegate_wait)
          /\ mf_result' = JoinResult(main_wait, delegate_wait)
          /\ local_ct' =
                IF JoinResult(main_wait, delegate_wait) = UninstallOk
                THEN LocalTokenAt("joined_ok") ELSE local_ct
          /\ UNCHANGED delegate_wait
    /\ mf_pc' = "done"
    /\ UNCHANGED <<delegate_info, uninstall_method, launch, u_pc, u_branch,
                   u_result, ct, process_delegate, child, delegate,
                   main_wait, key_task, keys>>
    /\ UNCHANGED <<REGEX_CACHE, runVars, m_call, m_ret, resolveVars,
                   cacheVars, handleVars>>

\* ret = method(..) => { result = ret }, or the plain await of line 227
MethodBranch ==
    /\ u_pc = "running" /\ mf_pc = "done"
    /\ u_branch' = "method" /\ u_result' = mf_result
    /\ u_pc' = IF interactive THEN "cancel" ELSE "returned"
    /\ key_task' = IF key_task = "created" THEN "dropped" ELSE key_task
    /\ UNCHANGED <<local_ct, delegate_info, uninstall_method, launch, ct, mf_pc, mf_result,
                   process_delegate, child, delegate, main_wait,
                   delegate_wait, keys>>
    /\ UNCHANGED <<REGEX_CACHE, runVars, m_call, m_ret, resolveVars,
                   cacheVars, handleVars>>

\* _ = wait_for_user(..) => { result = Ok(()) }: the method's future is
\* dropped where it stands
UserBranch ==
    /\ u_pc = "running" /\ interactive
    /\ key_task \in {"Key", "Cancelled"}
    /\ u_branch' = "user" /\ u_result' = UserBranchResult
    /\ mf_pc' = "dropped"
    /\ delegate_wait' = IF delegate_wait = "polling" THEN "dropped"
                        ELSE delegate_wait
    /\ u_pc' = "cancel"
    /\ UNCHANGED <<local_ct, delegate_info, uninstall_method, launch, ct, mf_result, process_delegate,
                   child, delegate, main_wait, key_task, keys>>
    /\ UNCHANGED <<REGEX_CACHE, runVars, m_call, m_ret, resolveVars,
                   cacheVars, handleVars>>

\* ct.cancel(); result
CancelAndReturn ==
    /\ u_pc = "cancel"
    /\ ct' = TokenAfterSelect(ct) /\ u_pc' = "returned"
    /\ UNCHANGED <<local_ct, delegate_info, uninstall_method, launch, u_branch, u_result, mf_pc, mf_result,
                   process_delegate, child, delegate, main_wait,
                   delegate_wait, key_task, keys>>
    /\ UNCHANGED <<REGEX_CACHE, runVars, m_call, m_ret, resolveVars,
                   cacheVars, handleVars>>

\* ---- the task spawned by read_key_async --------------------------------

\* if ct.is_some() && ct.as_ref().unwrap().is_cancelled() { return .. }
KeyTaskCheck ==
    /\ key_task = "check" /\ u_pc # "panicked"
    /\ key_task' = IF ct THEN "Cancelled" ELSE "poll"
    /\ UNCHANGED <<local_ct, delegate_info, uninstall_method, launch, u_pc, u_branch, u_result, ct, mf_pc,
                   mf_result, process_delegate, child, delegate, main_wait,
                   delegate_wait, keys>>
    /\ UNCHANGED <<REGEX_CACHE, runVars, m_call, m_ret, resolveVars,
                   cacheVars, handleVars>>

\* if poll(0)? { read() .. break Ok(Key) } else { sleep(20 ms) }
KeyTaskPoll ==
    /\ key_task = "poll" /\ u_pc # "panicked"
    /\ IF keys > 0
       THEN key_task' = "Key" /\ keys' = keys - 1
       ELSE key_task' = "check" /\ UNCHANGED keys
    /\ UNCHANGED <<local_ct, delegate_info, uninstall_method, launch, u_pc, u_branch, u_result, ct, mf_pc,
                   mf_result, process_delegate, child, delegate, main_wait,
                   delegate_wait>>
    /\ UNCHANGED <<REGEX_CACHE, runVars, m_call, m_ret, resolveVars,
                   cacheVars, handleVars>>

SuperInit ==
    /\ uninstall_method \in {"Normal", "Deferred"}
    /\ u_pc = "start" /\ u_branch = "none" /\ u_result = NoResult
    /\ ct = FALSE /\ mf_pc = "none" /\ mf_result = NoResult
    /\ process_delegate = "unknown"
    /\ child = "none" /\ delegate = "none"
    /\ main_wait = "none" /\ delegate_wait = "none"
    /\ key_task = "none" /\ keys = 0 /\ launch = "none"
    /\ local_ct = FALSE /\ delegate_info = NoDelegate
    /\ interactive \in BOOLEAN /\ RunIdleRest /\ CacheIdle /\ HandleIdle
    /\ REGEX_CACHE = EmptyCache /\ m_call = Idle /\ m_ret = Pending
    /\ ResolveIdle

SuperNext ==
    \/ DelegateStarts \/ ChildExits \/ DelegateExits \/ UserPressesKey
    \/ StartUninstall \/ WaitForUser \/ MethodSpawn \/ MethodScan
    \/ MainWaitPoll \/ DelegateWaitPoll \/ MethodComplete
    \/ MethodBranch \/ UserBranch \/ CancelAndReturn
    \/ KeyTaskCheck \/ KeyTaskPoll

SuperSpec == SuperInit /\ [][SuperNext]_vars

\* the wait task finds the launched process gone
MainWaitSeesExit == MainWaitPoll /\ main_wait' = "Ok"

\* the runtime keeps running the tasks it has and the futures it awaits
SuperFairness ==
    /\ WF_vars(WaitForUser)
    /\ WF_vars(KeyTaskCheck) /\ WF_vars(KeyTaskPoll)
    /\ WF_vars(MainWaitSeesExit)
    /\ WF_vars(MethodComplete) /\ WF_vars(MethodBranch)
    /\ WF_vars(UserBranch) /\ WF_vars(CancelAndReturn)

SuperLiveSpec == SuperInit /\ [][SuperNext]_vars /\ SuperFairness

----------------------------------------------------------------------------
(* Claims about the supervision of an uninstaller *)

Returned == u_pc = "returned"

MethodDone == mf_pc = "done"

\* no key-reading task is left: it returned, or was never spawned
KeyTaskStopped == key_task \in {"Cancelled", "Key", "dropped"}

\* C15: a Deferred uninstall that found no delegate waits on the launched
\* process alone: no wait on any other process is started, its result is
\* the result of that one wait, success means the launched process has
\* exited, and once that process has exited the action's future ends.
C15_NoDelegateWaitsOnMainOnly ==
    /\ []((uninstall_method = "Deferred" /\ process_delegate = "none")
            => /\ delegate_wait = "none"
               /\ MethodDone =>
                     /\ mf_result = MainWaitResult(main_wait)
                     /\ mf_result = UninstallOk => child = "exited")
    /\ (uninstall_method = "Deferred" /\ process_delegate = "none"
        /\ mf_pc = "wait_main" /\ child = "exited")
           ~> (mf_pc \in {"done", "dropped"})

\* the launched process had started another one that the search did not
\* find and that is still running; the action returned Ok all the same
C15_Witness ==
    /\ uninstall_method = "Deferred" /\ process_delegate = "none"
    /\ ~interactive /\ Returned /\ u_result = UninstallOk
    /\ child = "exited" /\ delegate = "running"

\* C16: with a delegate found the two waits are joined: the action ends
\* only when both waits have ended, succeeds only when both processes have
\* exited, and fails with UninstallFailed carrying the cause when either
\* wait ended in an error.
C16_JoinsBothWaits ==
    (process_delegate = "found" /\ MethodDone) =>
        /\ main_wait \in {"Ok", "Err"}
        /\ delegate_wait \in {"Ok", "Failed"}
        /\ mf_result = UninstallOk
              <=> (main_wait = "Ok" /\ delegate_wait = "Ok")
        /\ mf_result = UninstallOk
              => (child = "exited" /\ delegate = "exited")
        /\ main_wait = "Err" => mf_result = UninstallFailed("main")
        /\ (main_wait = "Ok" /\ delegate_wait = "Failed")
              => mf_result = UninstallFailed("delegate")

\* both processes exited and the action returned Ok
C16_Witness ==
    /\ process_delegate = "found" /\ MethodDone /\ Returned
    /\ u_result = UninstallOk
    /\ child = "exited" /\ delegate = "exited"

\* C17: in an interactive session the result is the action's own result
\* when the action completed and no key press was taken, and Ok when the
\* key press completed while the action had not.
C17_FirstCompletionWins ==
    (interactive /\ Returned) =>
        /\ u_branch \in {"method", "user"}
        /\ u_branch = "method" => (MethodDone /\ u_result = mf_result)
        /\ u_branch = "user"
              => (mf_pc = "dropped" /\ u_result = UninstallOk)
        /\ key_task # "Key" => u_branch = "method"
        /\ ~MethodDone => u_branch = "user"

\* the key press won while the launched process is still running
C17_Witness ==
    /\ interactive /\ Returned /\ u_branch = "user"
    /\ u_result = UninstallOk /\ child = "running"

\* C18 as stated: when the action completed first the token is cancelled
\* before the return, and from then on the key-reading task takes no key:
\* it can only stop with Cancelled.
C18_KeyTaskReturnsCancelled ==
    [][(interactive /\ Returned /\ u_branch = "method" /\ key_task # "Key")
          => key_task' # "Key"]_vars

\* C18, amended: when the action completed first the token is cancelled
\* before the return, the key-reading task returns Cancelled at its next
\* look at the token, and it stops without any key being pressed; a key
\* can still be taken by a poll that follows a look made before the
\* cancellation.
C18_KeyTaskStops ==
    /\ []((interactive /\ Returned) => ct)
    /\ [][(ct /\ key_task = "check") => key_task' \in {"check", "Cancelled"}]_vars
    /\ [][(Returned /\ u_branch = "method" /\ key_task' = "Key")
            => key_task \in {"poll", "Key"}]_vars
    /\ (interactive /\ Returned /\ u_branch = "method") ~> KeyTaskStopped

\* the action completed first, the key-reading task returned Cancelled,
\* and a key pressed meanwhile is still in the terminal
C18_Witness ==
    /\ interactive /\ Returned /\ u_branch = "method"
    /\ key_task = "Cancelled" /\ keys = 1

\* C19: when the key press completed first, no wait started by the action
\* is running or polling after run_uninstall_method has returned.
C19_WaitsStopOnKeyPress ==
    (Returned /\ u_branch = "user") =>
        (main_wait # "polling" /\ delegate_wait # "polling")

\* C20: in a non-interactive session no key-reading task is started and
\* the result is the result of awaiting the method.
C20_NoKeyRace ==
    ~interactive =>
        /\ key_task = "none"
        /\ u_branch # "user"
        /\ Returned => (MethodDone /\ u_result = mf_result)

\* a key was pressed during a non-interactive uninstall; nothing read it
\* and the action returned its own failure
C20_Witness ==
    /\ ~interactive /\ Returned /\ keys = 1
    /\ u_result = UninstallFailed("main")

----------------------------------------------------------------------------
(* What the matcher is required to compute, stated without the automaton:  *)
(* the language of a pattern, and "found somewhere in the text".           *)

RECURSIVE InLanguage(_, _)
\* s, compared without regard to case, is in the language of pattern p
InLanguage(p, s) ==
    IF p = <<>> THEN s = <<>>
    ELSE LET a == Head(p)
             Accepts(ch) == a.c = ANY \/ Fold(a.c) = Fold(ch)
         IN  IF a.star
             THEN \E k \in 0..Len(s) :
                     /\ \A m \in 1..k : Accepts(s[m])
                     /\ InLanguage(Tail(p), SubSeq(s, k + 1, Len(s)))
             ELSE /\ s # <<>>
                  /\ Accepts(s[1])
                  /\ InLanguage(Tail(p), Tail(s))

FoundIn(p, s) ==
    \E i \in 1..(Len(s) + 1) : \E j \in (i - 1)..Len(s) :
        InLanguage(p, SubSeq(s, i, j))

\* a present pattern is satisfied by an attribute
FieldSatisfied(pattern, actual) == actual.some /\ FoundIn(pattern.v, actual.v)
\* a field constrains nothing when absent
FieldHolds(pattern, actual) == ~pattern.some \/ FieldSatisfied(pattern, actual)


----------------------------------------------------------------------------
(* C8 *)

\* C8: cached_match returns TRUE for an absent pattern whatever the actual
\* value, FALSE for a present pattern and an absent actual value, and
\* otherwise TRUE exactly when the pattern is found somewhere in the actual
\* value, case ignored (a search, not a full match).
C8_FieldSemantics ==
    (m_call.op = "cached_match" /\ m_ret.done) =>
        m_ret.ret =
            (IF ~m_call.pattern.some THEN TRUE
             ELSE IF ~m_call.input.some THEN FALSE
             ELSE FoundIn(m_call.pattern.v, m_call.input.v))

\* "wacom" has matched "WACOM Technology"
C8_Witness ==
    /\ m_call.op = "cached_match" /\ m_ret.done
    /\ m_call.pattern = Some(WacomPattern)
    /\ m_call.input = Some(WacomTechnology)
    /\ m_ret.ret = TRUE

----------------------------------------------------------------------------
(* C7 *)

AllFieldsAbsent(call) ==
    CASE call.op = "Device" ->
             /\ ~call.self.device_desc.some /\ ~call.self.manufacturer.some
             /\ ~call.self.hardware_id.some /\ ~call.self.class_uuid.some
      [] call.op = "Driver" ->
             /\ ~call.self.original_name.some /\ ~call.self.provider.some
             /\ ~call.self.class.some
      [] call.op = "DriverPackage" ->
             /\ ~call.self.display_name.some
             /\ ~call.self.display_version.some
             /\ ~call.self.publisher.some
      [] OTHER -> FALSE

\* C7: a criterion whose optional matching fields are all absent matches
\* every object of its variant, devices with an empty hardware-id list
\* included.
C7_VacuousMatch ==
    (m_ret.done /\ AllFieldsAbsent(m_call)) => m_ret.ret = TRUE

----------------------------------------------------------------------------
(* C9 *)

\* some present field of the call's criterion is not satisfied by the
\* object's corresponding attribute
SomePresentFieldFails(call) ==
    LET self == call.self
        other == CallObject(call)
    IN  CASE call.op = "Device" ->
                 \/ ~FieldHolds(self.device_desc, other.description)
                 \/ ~FieldHolds(self.manufacturer, other.manufacturer)
                 \/ self.class_uuid.some /\ self.class_uuid.v # other.class_guid
                 \/ /\ self.hardware_id.some
                    /\ \A i \in 1..Len(other.hardware_ids) :
                          ~FoundIn(self.hardware_id.v, other.hardware_ids[i])
          [] call.op = "Driver" ->
                 \/ ~FieldHolds(self.original_name, other.inf_original_name)
                 \/ ~FieldHolds(self.provider, other.provider)
                 \/ self.class.some /\ self.class.v # other.class_guid
          [] call.op = "DriverPackage" ->
                 \/ ~FieldHolds(self.display_name, other.display_name)
                 \/ ~FieldHolds(self.display_version, other.display_version)
                 \/ ~FieldHolds(self.publisher, other.publisher)
          [] OTHER -> FALSE

\* C9: object-level matching is a conjunction: when one present field of
\* the criterion (a pattern or the class UUID) is not satisfied by the
\* object, the criterion does not match, whatever the other fields are.
C9_Conjunction ==
    (m_ret.done /\ m_call.op \in {"Device", "Driver", "DriverPackage"}
       /\ SomePresentFieldFails(m_call))
        => m_ret.ret = FALSE

\* a driver whose original name satisfies its pattern was rejected because
\* the provider pattern is found nowhere in its provider
C9_Witness ==
    /\ m_ret.done /\ m_call.op = "Driver"
    /\ m_call.self.original_name.some /\ m_call.self.provider.some
    /\ FieldSatisfied(m_call.self.original_name, m_call.inf_original_name)
    /\ m_call.provider.some
    /\ ~FoundIn(m_call.self.provider.v, m_call.provider.v)
    /\ UuidMatches(m_call.self.class, m_call.class_guid)
    /\ m_ret.ret = FALSE

----------------------------------------------------------------------------
(* C10 *)

OtherDeviceFieldsHold(call) ==
    /\ FieldHolds(call.self.device_desc, call.description)
    /\ FieldHolds(call.self.manufacturer, call.manufacturer)
    /\ UuidMatches(call.self.class_uuid, call.class_guid)

\* C10: with the hardware_id pattern present (and the other fields
\* satisfied) a device matches exactly when at least one element of its
\* hardware-id list contains the pattern; a device without hardware ids
\* never does.
C10_HardwareIdExists ==
    (m_ret.done /\ m_call.op = "Device" /\ m_call.self.hardware_id.some
       /\ OtherDeviceFieldsHold(m_call))
        => LET hwids == CallObject(m_call).hardware_ids
           IN  m_ret.ret =
                   (\E i \in 1..Len(hwids) :
                        FoundIn(m_call.self.hardware_id.v, hwids[i]))

\* a device matched through its second hardware id although the first one
\* does not contain the pattern
C10_Witness ==
    /\ m_ret.done /\ m_call.op = "Device" /\ m_call.self.hardware_id.some
    /\ LET hwids == CallObject(m_call).hardware_ids
       IN  /\ Len(hwids) >= 2
           /\ ~FoundIn(m_call.self.hardware_id.v, hwids[1])
           /\ FoundIn(m_call.self.hardware_id.v, hwids[2])
    /\ m_ret.ret = TRUE

----------------------------------------------------------------------------
(* Claims about the process driver and the module run (Spec), continued *)

\* C22: a process without the required privileges in a non-interactive
\* session exits with code 1 before any module is run
C22_NonElevatedNonInteractiveExits ==
    (~elevated /\ ~interactive /\ ~dry_run /\ pc # "start")
        => (pc = "exited" /\ exit_code = 1 /\ mi = 0)

\* C23: when a module's run has returned an error the next step is the exit
\* with code 1, it changes nothing the earlier modules left behind, and
\* nothing runs after an exit
C23_ModuleFailureAborts ==
    [][/\ pc # "exited"
       /\ (pc = "run_returned" /\ run_result = "Err")
            => /\ pc' = "exited" /\ exit_code' = 1
               /\ UNCHANGED <<mi, need_reboot, uninstalled,
                              REGEX_CACHE>>]_vars

C23_Witness ==
    /\ pc = "exited" /\ exit_code = 1 /\ run_result = "Err"
    /\ mi = 2 /\ Len(modules) = 3 /\ uninstalled > 0

RebootSignalled ==
    \E k \in 1..Len(log) :
        log[k].kind = "uninstall" /\ log[k].what = "OkReboot"

\* C24: reboot_required of a module run is false until an uninstall action
\* of this run has succeeded with the reboot signal, and true ever after
C24_RebootRequired ==
    /\ reboot_required <=> RebootSignalled
    /\ pc = "get_objects" => ~reboot_required

C24_Witness ==
    /\ reboot_required
    /\ \E k \in 1..Len(log), l \in 1..Len(log) :
          /\ k < l
          /\ log[k].kind = "uninstall" /\ log[k].what = "OkReboot"
          /\ log[l].kind = "uninstall" /\ log[l].what = "UninstallFailed"

\* C25: a payload in which a criterion object has an unknown key makes the
\* module run fail at the parse: nothing is enumerated, matched or
\* uninstalled, and the process exits with code 1
C25_UnknownKeyIsParseError ==
    HasUnknownKey(payload)
        => /\ load_failed /\ run_result = "Err"
           /\ pc \in {"run_returned", "exited"}
           /\ pc = "exited" => exit_code = 1
           /\ ~enum_failed /\ objects = <<>> /\ objects_to_uninstall = <<>>
           /\ chosen = <<>> /\ log = <<>>

C25_Witness ==
    /\ HasUnknownKey(payload) /\ pc = "exited"
    /\ mi \in 1..Len(modules) /\ Module = "DriverPackage"

NothingReports == {k \in 1..Len(log) : log[k].kind = "nothing"}

SomeMatched == \E i \in 1..Len(chosen) : chosen[i] # 0

\* C26: the "nothing to uninstall" line is printed once, as the last thing
\* of a run in which no object matched, and never in a run in which an
\* object matched
C26_NothingReportedOnce ==
    /\ pc \in {"consider", "prompt", "uninstall", "panicked"}
         => NothingReports = {}
    /\ (pc = "run_returned" /\ run_result = "Ok")
         => NothingReports = IF SomeMatched THEN {} ELSE {Len(log)}

C26_Witness ==
    /\ pc = "run_returned" /\ run_result = "Ok" /\ ~dry_run
    /\ SomeMatched /\ NothingReports = {}
    /\ \E k \in 1..Len(log) : log[k].kind = "skipping"
    /\ \E k \in 1..Len(log) : log[k].kind = "eprintln"
    /\ \A k \in 1..Len(log) :
          log[k].kind = "uninstall" => log[k].what = "UninstallFailed"

\* C29: an AlreadyUninstalled outcome is not printed on the error channel
C29_AlreadyUninstalledNotAnError ==
    \A k \in 1..Len(log) :
        log[k].kind = "eprintln" => log[k].what # "AlreadyUninstalled"

\* C30: a run enumerates only with criteria parsed from the payload, matches
\* and reports only after the enumeration has succeeded, takes the objects
\* in the order of the enumeration, and has finished the uninstall action
\* of every earlier object before it considers the next
C30_RunOrdering ==
    RunActive =>
        /\ pc \in {"get_objects", "consider", "prompt", "uninstall"}
             => /\ ~load_failed /\ payload.kind = "Json"
                /\ objects_to_uninstall = from_slice(Module, payload).criteria
        /\ (chosen # <<>> \/ log # <<>> \/ objects # <<>>)
             => ~load_failed /\ ~enum_failed /\ pc # "get_objects"
        /\ Len(chosen) = IF pc = "consider" \/ run_result = "Ok"
                         THEN oi - 1 ELSE oi
        /\ \A k \in 1..Len(log), l \in 1..Len(log) :
              k < l => log[k].obj <= log[l].obj /\ log[l].obj <= oi
        /\ \A k \in 1..Len(log) :
              (log[k].kind = "uninstalling" /\ ~dry_run /\ log[k].obj < oi)
                 => /\ k < Len(log)
                    /\ log[k + 1].kind = "uninstall"
                    /\ log[k + 1].obj = log[k].obj

C30_Witness ==
    /\ pc = "uninstall" /\ oi = 2
    /\ \E k \in 1..Len(log) : log[k].kind = "uninstall" /\ log[k].obj = 1

----------------------------------------------------------------------------
(* regex_cache.rs: cached_match called from several threads at once.  A   *)
(* thread takes the steps of the function one at a time; the MutexGuard   *)
(* taken at line 23 is dropped when the function returns or unwinds.      *)

CacheInputs == {None, Some(<<"a">>), Some(<<"A", "b">>)}
CachePatterns == {None, Some(<<Lit("a")>>), Some(<<Star(ANY)>>)}

Poisoned == -1

MutexFree_always(holder) == TRUE

\* Mutex::lock blocks while another thread holds the guard
MutexFree(holder) == holder = 0

\* the early returns for a missing pattern or a missing input, else on to
\* REGEX_CACHE.lock()
CacheCall ==
    \E t \in Threads, input \in CacheInputs, regex_pattern \in CachePatterns :
        /\ th[t].pc = "idle"
        /\ th' = [th EXCEPT ![t] =
                    [pc |-> IF regex_pattern.some /\ input.some
                            THEN "lock" ELSE "idle",
                     input |-> input, pattern |-> regex_pattern,
                     regex |-> build_regex(<<>>),
                     ret |-> IF ~regex_pattern.some
                             THEN [done |-> TRUE, ret |-> TRUE]
                             ELSE IF ~input.some
                             THEN [done |-> TRUE, ret |-> FALSE]
                             ELSE Pending]]
        /\ UNCHANGED <<lock, built>>
        /\ UNCHANGED <<REGEX_CACHE, runVars, m_call, m_ret, resolveVars,
                       superVars, handleVars>>

\* REGEX_CACHE.lock().unwrap()
CacheLock ==
    \E t \in Threads :
        /\ th[t].pc = "lock"
        /\ IF lock = Poisoned
           THEN /\ th' = [th EXCEPT ![t].pc = "panicked"]
                /\ UNCHANGED lock
           ELSE /\ MutexFree(lock)
                /\ lock' = t
                /\ th' = [th EXCEPT ![t].pc = "get"]
        /\ UNCHANGED built
        /\ UNCHANGED <<REGEX_CACHE, runVars, m_call, m_ret, resolveVars,
                       superVars, handleVars>>

\* match cache.get(regex_pattern)
CacheGet ==
    \E t \in Threads :
        /\ th[t].pc = "get"
        /\ th' = IF th[t].pattern.v \in DOMAIN REGEX_CACHE
                 THEN [th EXCEPT ![t].pc = "is_match",
                                 ![t].regex = REGEX_CACHE[th[t].pattern.v]]
                 ELSE [th EXCEPT ![t].pc = "build"]
        /\ UNCHANGED <<lock, built>>
        /\ UNCHANGED <<REGEX_CACHE, runVars, m_call, m_ret, resolveVars,
                       superVars, handleVars>>

\* let regex = build_regex(regex_pattern)
CacheBuild ==
    \E t \in Threads :
        /\ th[t].pc = "build"
        /\ th' = [th EXCEPT ![t].pc = "insert",
                            ![t].regex = build_regex(th[t].pattern.v)]
        /\ built' = Append(built, th[t].pattern.v)
        /\ UNCHANGED lock
        /\ UNCHANGED <<REGEX_CACHE, runVars, m_call, m_ret, resolveVars,
                       superVars, handleVars>>

\* let Entry::Vacant(vacant) = cache.entry(..) else { unreachable!() };
\* vacant.insert(regex)
CacheInsert ==
    \E t \in Threads :
        /\ th[t].pc = "insert"
        /\ IF th[t].pattern.v \notin DOMAIN REGEX_CACHE
           THEN /\ REGEX_CACHE' =
                      [p \in DOMAIN REGEX_CACHE \cup {th[t].pattern.v} |->
                          IF p = th[t].pattern.v THEN th[t].regex
                          ELSE REGEX_CACHE[p]]
                /\ th' = [th EXCEPT ![t].pc = "is_match"]
                /\ UNCHANGED lock
           ELSE /\ th' = [th EXCEPT ![t].pc = "panicked"]
                /\ lock' = Poisoned
                /\ UNCHANGED REGEX_CACHE
        /\ UNCHANGED built
        /\ UNCHANGED <<runVars, m_call, m_ret, resolveVars, superVars,
                       handleVars>>

\* regex.is_match(input), and the guard is dropped on return
CacheIsMatch ==
    \E t \in Threads :
        /\ th[t].pc = "is_match"
        /\ th' = [th EXCEPT ![t].pc = "idle",
                            ![t].ret = [done |-> TRUE,
                                        ret |-> is_match(th[t].regex,
                                                         th[t].input.v)]]
        /\ lock' = IF lock = t THEN 0 ELSE lock
        /\ UNCHANGED built
        /\ UNCHANGED <<REGEX_CACHE, runVars, m_call, m_ret, resolveVars,
                       superVars, handleVars>>

CacheInit ==
    /\ REGEX_CACHE = EmptyCache /\ CacheIdle /\ HandleIdle
    /\ m_call = Idle /\ m_ret = Pending
    /\ RunIdle /\ ResolveIdle /\ SuperIdle

CacheNext ==
    \/ CacheCall \/ CacheLock \/ CacheGet \/ CacheBuild \/ CacheInsert
    \/ CacheIsMatch

CacheSpec == CacheInit /\ [][CacheNext]_vars

InCritical(t) == th[t].pc \in {"get", "build", "insert", "is_match"}

BuiltTexts == {built[k] : k \in 1..Len(built)}

\* C28: between the lock and the return of cached_match there is one
\* thread at a time, and it holds the mutex; build_regex is called for a
\* pattern text only when the cache has no entry for it, so each text is
\* compiled once; every text compiled is in the cache from its insert on,
\* with the value compiled then; a call that finds an entry matches with
\* that entry; and every call returns what a call alone would return
C28_CacheSerialized ==
    /\ \A t \in Threads, u \in Threads :
          InCritical(t) /\ InCritical(u) => t = u
    /\ \A t \in Threads :
          /\ InCritical(t) => lock = t
          /\ th[t].pc # "panicked"
          /\ th[t].pc = "build" => th[t].pattern.v \notin DOMAIN REGEX_CACHE
          /\ th[t].pc = "is_match"
               => /\ th[t].pattern.v \in DOMAIN REGEX_CACHE
                  /\ th[t].regex = REGEX_CACHE[th[t].pattern.v]
          /\ (th[t].pc = "idle" /\ th[t].ret.done)
               => th[t].ret.ret =
                    cached_match(EmptyCache, th[t].input,
                                 th[t].pattern).ret
    /\ \A k \in 1..Len(built), l \in 1..Len(built) :
          built[k] = built[l] => k = l
    /\ DOMAIN REGEX_CACHE =
          BuiltTexts \ {th[t].pattern.v : t \in {u \in Threads :
                                                   th[u].pc = "insert"}}
    /\ \A p \in DOMAIN REGEX_CACHE : REGEX_CACHE[p] = build_regex(p)

C28_Witness ==
    /\ Len(built) = 1
    /\ \A t \in Threads :
          /\ th[t].pc = "idle" /\ th[t].ret.done
          /\ th[t].input.some
          /\ th[t].pattern = Some(<<Star(ANY)>>)

----------------------------------------------------------------------------
(* Claims about the launch of the uninstaller (SuperSpec) *)

NoWaitStarted ==
    /\ child = "none" /\ process_delegate = "unknown"
    /\ main_wait = "none" /\ delegate_wait = "none"

\* C21: when the launch fails because the program is not found, the
\* method's result is AlreadyUninstalled and no process is waited on; when
\* it fails for another reason the result is UninstallFailed; and no other
\* path gives AlreadyUninstalled
C21_LaunchErrors ==
    /\ launch = "NotFound"
         => /\ mf_result = AlreadyUninstalled /\ NoWaitStarted
            /\ u_branch = "method" => u_result = AlreadyUninstalled
    /\ launch = "OtherError"
         => /\ mf_result = UninstallFailed("spawn") /\ NoWaitStarted
            /\ u_branch = "method" => u_result = UninstallFailed("spawn")
    /\ (mf_result = AlreadyUninstalled \/ u_result = AlreadyUninstalled)
         => launch = "NotFound"

C21_Witness ==
    /\ uninstall_method = "Deferred" /\ launch = "NotFound"
    /\ Returned /\ u_result = AlreadyUninstalled

----------------------------------------------------------------------------
(* The scopes that own an OS handle: enumerate_devices (windows.rs) and   *)
(* the device module's uninstall_object (device_cleanup.rs), which create *)
(* a device information set, and windows::wait_for_process_async, which   *)
(* opens a process.  A scope entered is followed to one of its exits;     *)
(* h_open counts the handles that are open.                               *)

\* `impl Drop for Handle` closes the process handle wherever its owner is
\* left; HDEVINFO is a plain copyable value, nothing is run when it goes
\* out of scope and no path calls SetupDiDestroyDeviceInfoList
ReleasedOnDrop(kind) == kind = "process"

\* the open handles once a scope that acquired a handle of this kind, or
\* failed to acquire it, has been left
AfterScope(kind, acquired) ==
    IF acquired /\ ~ReleasedOnDrop(kind)
    THEN [h_open EXCEPT ![kind] = @ + 1]
    ELSE h_open

\* enumerate_devices: SetupDiGetClassDevsW(..)?, then the loop left by an
\* enumeration error, by create_device(..)?, or by ERROR_NO_MORE_ITEMS
EnumerateDevices ==
    /\ h_pc = "idle" /\ h_calls < MaxScopes
    /\ \E path \in {"GetClassDevsFailed", "EnumDeviceInfoFailed",
                    "CreateDeviceFailed", "Ok"} :
          /\ h_exit' = [scope |-> "enumerate_devices", path |-> path]
          /\ h_open' = AfterScope("device_info_set",
                                  path # "GetClassDevsFailed")
    /\ h_calls' = h_calls + 1
    /\ UNCHANGED h_pc
    /\ UNCHANGED <<REGEX_CACHE, runVars, m_call, m_ret, resolveVars,
                   superVars, cacheVars>>

\* DeviceCleanupModule::uninstall_object: SetupDiCreateDeviceInfoList(..)?,
\* SetupDiOpenDeviceInfoW, DiUninstallDevice
DeviceUninstallObject ==
    /\ h_pc = "idle" /\ h_calls < MaxScopes
    /\ \E path \in {"CreateDeviceInfoListFailed", "OpenDeviceInfoFailed",
                    "DiUninstallDeviceFailed", "Ok"} :
          /\ h_exit' = [scope |-> "uninstall_object", path |-> path]
          /\ h_open' = AfterScope("device_info_set",
                                  path # "CreateDeviceInfoListFailed")
    /\ h_calls' = h_calls + 1
    /\ UNCHANGED h_pc
    /\ UNCHANGED <<REGEX_CACHE, runVars, m_call, m_ret, resolveVars,
                   superVars, cacheVars>>

\* wait_for_process_async(process_id, ct) up to its first return or its
\* first sleep: OpenProcess, Handle::from, WaitForSingleObject
WaitForProcessStart ==
    /\ h_pc = "idle" /\ h_calls < MaxScopes
    /\ \E path \in {"OpenProcessFailed", "Signaled", "WaitFailed",
                    "Cancelled", "Sleep"} :
          IF path = "Sleep"
          THEN /\ h_pc' = "sleeping"
               /\ h_open' = [h_open EXCEPT !.process = @ + 1]
               /\ UNCHANGED h_exit
          ELSE /\ h_exit' = [scope |-> "wait_for_process_async",
                             path |-> path]
               /\ h_open' = AfterScope("process",
                                       path # "OpenProcessFailed")
               /\ UNCHANGED h_pc
    /\ h_calls' = h_calls + 1
    /\ UNCHANGED <<REGEX_CACHE, runVars, m_call, m_ret, resolveVars,
                   superVars, cacheVars>>

\* the handles left when the owner of the open process handle goes away
ProcessOwnerGone ==
    IF ReleasedOnDrop("process")
    THEN [h_open EXCEPT !.process = @ - 1]
    ELSE h_open

\* the loop after a sleep: a return, a bail!, or the next sleep
WaitForProcessPoll ==
    /\ h_pc = "sleeping"
    /\ \E path \in {"Signaled", "WaitFailed", "Cancelled"} :
          h_exit' = [scope |-> "wait_for_process_async", path |-> path]
    /\ h_open' = ProcessOwnerGone
    /\ h_pc' = "idle"
    /\ UNCHANGED h_calls
    /\ UNCHANGED <<REGEX_CACHE, runVars, m_call, m_ret, resolveVars,
                   superVars, cacheVars>>

\* the future is dropped at its await (select! took the other branch)
WaitForProcessDropped ==
    /\ h_pc = "sleeping"
    /\ h_exit' = [scope |-> "wait_for_process_async", path |-> "Dropped"]
    /\ h_open' = ProcessOwnerGone
    /\ h_pc' = "idle"
    /\ UNCHANGED h_calls
    /\ UNCHANGED <<REGEX_CACHE, runVars, m_call, m_ret, resolveVars,
                   superVars, cacheVars>>

HandleInit ==
    /\ HandleIdle /\ CacheIdle
    /\ REGEX_CACHE = EmptyCache /\ m_call = Idle /\ m_ret = Pending
    /\ RunIdle /\ ResolveIdle /\ SuperIdle

HandleNext ==
    \/ EnumerateDevices \/ DeviceUninstallObject
    \/ WaitForProcessStart \/ WaitForProcessPoll \/ WaitForProcessDropped

HandleSpec == HandleInit /\ [][HandleNext]_vars

\* C27: whenever no handle-owning scope is being executed, no device
\* information set and no process handle is open
C27_HandlesReleased == h_pc = "idle" => h_open = NoHandles


-----------------------------------------------------------------------------
(* C31 *)

\* the positions in the log of the prompts issued for object i
PromptsFor(i) ==
    {k \in 1..Len(log) : log[k].kind = "prompt" /\ log[k].obj = i}

\* C31: a prompt is issued for an object only when the session is
\* interactive, the run is not a dry run and the object matched a
\* criterion; in such a run every matched object is prompted for exactly
\* once before anything else is done with it, and in every other run a
\* matched object goes straight to "uninstalling" without a prompt.
C31_PromptIffInteractiveNotDryRun ==
    /\ pc = "prompt" => interactive /\ ~dry_run /\ chosen[oi] # 0
    /\ \A k \in 1..Len(log) :
          /\ log[k].kind = "prompt" =>
                /\ interactive /\ ~dry_run
                /\ chosen[log[k].obj] # 0
                /\ Cardinality(PromptsFor(log[k].obj)) = 1
          /\ log[k].kind = "uninstalling" =>
                IF interactive /\ ~dry_run
                THEN /\ k > 1
                     /\ log[k - 1] = Event("prompt", log[k].obj,
                                           log[k].crit, "Yes")
                ELSE PromptsFor(log[k].obj) = {}
    /\ \A i \in 1..Len(chosen) :
          /\ chosen[i] = 0 => PromptsFor(i) = {}
          /\ chosen[i] # 0 /\ interactive /\ ~dry_run =>
                PromptsFor(i) # {} \/ (i = oi /\ pc = "prompt")

\* in an interactive run that is not a dry run the first object matched
\* nothing and was passed over silently, the second matched and was
\* prompted for
C31_Witness ==
    /\ interactive /\ ~dry_run
    /\ Len(chosen) = 2 /\ chosen[1] = 0 /\ chosen[2] # 0
    /\ PromptsFor(1) = {} /\ PromptsFor(2) # {}

-----------------------------------------------------------------------------
(* C32 *)

\* C32: the step that answers No at the prompt for an object only logs the
\* prompt and "skipping" and moves to the next object: the uninstall
\* action is not invoked for it, found, reboot_required, the run result,
\* the exit code and the number of performed uninstalls stay as they were;
\* and a run that returns Ok has considered every enumerated object.
C32_NoSkipsOnlyThatObject ==
    /\ [][(pc = "prompt" /\ log'[Len(log) + 1].what = "No") =>
            /\ log' = log \o <<Event("prompt", oi, chosen[oi], "No"),
                               Event("skipping", oi, chosen[oi], "-")>>
            /\ oi' = oi + 1 /\ pc' = "consider"
            /\ UNCHANGED <<found, reboot_required, run_result, exit_code,
                           uninstalled, chosen, objects, cancel_at,
                           need_reboot, mi>>]_vars
    /\ [](\A i \in 1..Len(chosen) :
              Answered(i, "No") => UninstallCalls(i) = {} /\ oi > i)
    /\ [](pc = "run_returned" /\ run_result = "Ok" =>
              Len(chosen) = Len(objects))

\* No was answered for the first object, and the second object was still
\* considered, confirmed and uninstalled before the run returned Ok
C32_Witness ==
    /\ pc = "run_returned" /\ run_result = "Ok"
    /\ Answered(1, "No") /\ Answered(2, "Yes") /\ UninstallCalls(2) # {}

-----------------------------------------------------------------------------
(* C39 *)

\* C39: the reboot command is issued only after every selected module has
\* returned Ok, only when need_reboot was set by one of them, only in an
\* interactive session and only when the key read at the reboot prompt is
\* not 'q'; the reboot prompt itself is offered under the same first three
\* conditions, so a non-interactive session never reboots.
C39_RebootOnlyWhenAllowed ==
    /\ rebooted =>
          /\ pc = "exited" /\ exit_code = 0 /\ cancel_at = <<>>
          /\ mi = Len(modules) + 1
          /\ need_reboot /\ interactive /\ reboot_key = "other"
    /\ reboot_key # "none" =>
          need_reboot /\ interactive /\ mi = Len(modules) + 1
    /\ need_reboot => uninstalled > 0
    /\ ~interactive => ~rebooted

\* two modules completed, one of them asked for a reboot, and the key
\* pressed at the reboot prompt was not 'q'
C39_Witness ==
    /\ rebooted /\ Len(modules) >= 2 /\ reboot_key = "other"

-----------------------------------------------------------------------------
(* C40 *)

\* the uninstall calls of the current module run that succeeded
SucceededCalls ==
    {k \in 1..Len(log) :
        log[k].kind = "uninstall" /\ log[k].what \in {"Ok", "OkReboot"}}

\* C40: the step that answers Cancel at a prompt ends the process at once
\* with exit code 0, leaving the reboot requirement gathered so far and
\* the uninstalls already performed as they are; after it no reboot is
\* offered or issued.
C40_CancelDiscardsReboot ==
    /\ [][(pc = "prompt" /\ log'[Len(log) + 1].what = "Cancel") =>
            /\ pc' = "exited" /\ exit_code' = 0
            /\ UNCHANGED <<need_reboot, reboot_required, uninstalled,
                           rebooted, reboot_key, mi, oi>>]_vars
    /\ [](cancel_at # <<>> =>
            /\ pc = "exited" /\ exit_code = 0
            /\ ~rebooted /\ reboot_key = "none"
            /\ uninstalled >= Cardinality(SucceededCalls))

\* Cancel was answered after an uninstall of this run had asked for a
\* reboot
C40_Witness ==
    /\ cancel_at # <<>> /\ pc = "exited"
    /\ reboot_required /\ uninstalled > 0 /\ ~rebooted


-----------------------------------------------------------------------------
(* C33 *)

\* the resolution before this one had caching and update-checking enabled
\* and returned the bytes fetched by the online tier
PreviousFetched ==
    /\ r_prev.use_cache /\ r_prev.allow_updates
    /\ r_prev.result.kind = "Ok" /\ r_prev.result.source = "Remote"

\* C33: when the previous resolution of the identifier had caching and
\* update-checking enabled and succeeded through the online tier, and this
\* resolution has caching enabled and the file system lets the cache file
\* be opened and read, this resolution returns exactly the bytes fetched
\* before, tagged Local, from the offline tier alone: the online tier is
\* not attempted, whether or not updates are allowed now.
C33_CacheRoundTrip ==
    (/\ PreviousFetched /\ use_cache /\ Tried("offline")
     /\ AttemptOf("offline").io.open /\ AttemptOf("offline").io.read)
        => /\ Resolved
           /\ r_result = RetrievalOk("Local", r_prev.result.content)
           /\ Len(r_tried) = 1 /\ ~Tried("online")

\* the second resolution, with updates allowed, returned from the cache
\* the bytes "new" that the first one had fetched
C33_Witness ==
    /\ PreviousFetched /\ r_prev.result.content = "new"
    /\ use_cache /\ allow_updates /\ Resolved
    /\ r_result = RetrievalOk("Local", "new") /\ Len(r_tried) = 1

-----------------------------------------------------------------------------
(* C38 *)

\* C38: while a resolution runs with use_cache false no step of it changes
\* the config directory or the cache file; its offline tier returns
\* Disallowed without looking at either, and nothing it returns is tagged
\* Local.
C38_NoCacheLeavesCacheUntouched ==
    /\ [][(~use_cache /\ r_pc \in {"offline", "online", "embed"}) =>
             UNCHANGED <<config_dir, cache_file>>]_vars
    /\ [](~use_cache /\ Tried("offline") =>
             AttemptOf("offline").res = RetrievalErr("Disallowed", "offline"))
    /\ [](~use_cache /\ r_result.kind = "Ok" => r_result.source # "Local")

\* with caching disabled the online fetch succeeded although a config
\* directory with a different cache file was there; the file is as before
C38_Witness ==
    /\ ~use_cache /\ Resolved /\ r_n = 1
    /\ r_result = RetrievalOk("Remote", "new")
    /\ config_dir /\ cache_file = Some("old")


-----------------------------------------------------------------------------
(* C34 *)

\* C34: uninstall_deferred looks for a delegate only after the uninstaller
\* was spawned and the sleep is over; the entry it picks always has the
\* launched process as its parent and a command line that is present and
\* contains the program's directory; the delegate wait is only ever
\* started on such an entry, and with no such entry only the launched
\* process is waited on.
C34_DelegateDetection ==
    /\ process_delegate # "unknown" =>
          /\ uninstall_method = "Deferred" /\ launch = "Spawned"
          /\ mf_pc \notin {"spawn", "sleep"}
    /\ delegate_info.some =>
          /\ process_delegate = "found"
          /\ delegate_info.v.parent_process_id = ChildId
          /\ delegate_info.v.command_line.some
          /\ contains(delegate_info.v.command_line.v, TargetDir)
    /\ process_delegate = "found" <=> delegate_info.some
    /\ delegate_wait # "none" => delegate_info.some
    /\ mf_pc = "sleep" => launch = "Spawned" /\ child # "none"

\* a delegate was picked and its wait has seen it exit
C34_Witness ==
    /\ delegate_info.some /\ delegate_info.v.process_id = 3
    /\ delegate_wait = "Ok" /\ main_wait = "Ok" /\ u_pc = "returned"

-----------------------------------------------------------------------------
(* C37 *)

\* C37: the token observed by the delegate wait is the one created in
\* uninstall_deferred; it is cancelled only when both joined waits have
\* returned Ok, so the delegate wait never ends with Timeout; the step
\* that cancels the supervisor's token changes neither that token nor the
\* state of the delegate wait.
C37_DelegateWaitNeverTimesOut ==
    /\ [](delegate_wait # "Timeout")
    /\ [](local_ct => main_wait = "Ok" /\ delegate_wait = "Ok")
    /\ [](delegate_wait = "polling" => ~local_ct)
    /\ [][ct' # ct => UNCHANGED <<local_ct, delegate_wait>>]_vars

\* both joined waits returned Ok, the local token was cancelled after
\* them, and the supervisor's token was cancelled on return
C37_Witness ==
    /\ local_ct /\ ct /\ u_pc = "returned" /\ u_branch = "method"
    /\ delegate_wait = "Ok"


-----------------------------------------------------------------------------
(* C36 *)
(* One module run, one resolution of an identifier with the runs that      *)
(* follow it, and one supervised uninstaller, each taken on its own: the   *)
(* three places where something could be attempted a second time.          *)

OnceInit == (Init /\ Len(modules) = 1) \/ ResolveInit \/ SuperInit

OnceNext == Next \/ ResolveNext \/ SuperNext

OnceSpec == OnceInit /\ [][OnceNext]_vars

\* C36: nothing is attempted twice.  In a module run the objects are
\* considered in order, one should_uninstall result each, and an object
\* has at most one prompt and at most one uninstall call, also when that
\* call returned an error; a run that returns Ok has considered every
\* object once.  In a resolution no tier appears twice among the attempts.
\* An uninstaller is spawned at most once, and a wait that has returned,
\* with Ok or with an error, is not started again.
C36_NoRetries ==
    /\ [](/\ oi >= 1 => Len(chosen) \in {oi - 1, oi}
          /\ Len(chosen) <= Len(objects)
          /\ \A i \in 1..Len(objects) :
                /\ Cardinality(UninstallCalls(i)) <= 1
                /\ Cardinality(PromptsFor(i)) <= 1
          /\ pc = "run_returned" /\ run_result = "Ok" =>
                Len(chosen) = Len(objects))
    /\ [](\A k, l \in 1..Len(r_tried) :
              k # l => r_tried[k].tier # r_tried[l].tier)
    /\ [][/\ launch # "none" => launch' = launch
          /\ main_wait \in {"Ok", "Err"} => main_wait' = main_wait
          /\ delegate_wait \in {"Ok", "Failed", "Timeout"} =>
                delegate_wait' = delegate_wait
          /\ mf_pc = "done" => mf_pc' \in {"done", "dropped"}]_vars

\* both objects of a run were matched, the uninstall of the first failed,
\* the second was uninstalled, and the run returned Ok with one call each
C36_Witness ==
    /\ pc = "run_returned" /\ run_result = "Ok" /\ Len(objects) = 2
    /\ \E k \in UninstallCalls(1) : IsErr(log[k].what)
    /\ Cardinality(UninstallCalls(1)) = 1
    /\ Cardinality(UninstallCalls(2)) = 1


-----------------------------------------------------------------------------
(* services/interest.rs: the interest filter of the dump command, and the  *)
(* is_of_interest functions of the three modules that feed it.  The two    *)
(* pattern maps are HashMaps: the order in which values() yields the       *)
(* patterns is fixed within a process and arbitrary, and is part of each   *)
(* call here.  Three of the allow patterns stand for the list.             *)

\* sample strings and the patterns as the atoms of build_regex
PatWacom == <<Lit("W"), Lit("a"), Lit("c"), Lit("o"), Lit("m")>>
PatTablet == <<Lit("T"), Lit("a"), Lit("b"), Lit("l"), Lit("e"), Lit("t")>>
PatFiltr == <<Lit("f"), Lit("i"), Lit("l"), Lit("t"), Lit("r")>>
PatAndroid ==
    <<Lit("a"), Lit("n"), Lit("d"), Lit("r"), Lit("o"), Lit("i"), Lit("d")>>
PatLogitech ==
    <<Lit("l"), Lit("o"), Lit("g"), Lit("i"), Lit("t"), Lit("e"), Lit("c"),
      Lit("h")>>
StrUsb == <<"u", "s", "b">>
StrWacomFiltr ==
    <<"W", "a", "c", "o", "m", " ", "f", "i", "l", "t", "r">>
StrWACOM == <<"W", "A", "C", "O", "M">>
StrAndroidTablet ==
    <<"A", "n", "d", "r", "o", "i", "d", " ", "T", "a", "b", "l", "e", "t">>
StrLogitech == <<"l", "o", "g", "i", "t", "e", "c", "h">>

INTEREST_CACHE ==
    {PatWacom,
     PatTablet,
     PatFiltr}

COUNTER_INTEREST_CACHE ==
    {PatAndroid,
     PatLogitech}

\* the orders in which a map of these patterns can be iterated
Orders(map) ==
    {f \in [1..Cardinality(map) -> map] :
        \A x \in map : \E i \in DOMAIN f : f[i] = x}

\* for regex in COUNTER_INTEREST_CACHE.values() { if regex.is_match(string)
\* { return false; } } return true;
RECURSIVE DenyScan(_, _, _)
DenyScan(string, deny, j) ==
    IF j > Len(deny) THEN [ret |-> TRUE, deny_checked |-> Len(deny)]
    ELSE IF is_match(build_regex(deny[j]), string)
    THEN [ret |-> FALSE, deny_checked |-> j]
    ELSE DenyScan(string, deny, j + 1)

\* for regex in INTEREST_CACHE.values() { if regex.is_match(string) { .. } }
\* false
RECURSIVE AllowScan(_, _, _, _)
AllowScan(string, allow, deny, i) ==
    IF i > Len(allow) THEN [ret |-> FALSE, deny_checked |-> 0]
    ELSE IF is_match(build_regex(allow[i]), string)
    THEN DenyScan(string, deny, 1)
    ELSE AllowScan(string, allow, deny, i + 1)

is_of_interest_allow_only(string, allow, deny) ==
    IF ~string.some THEN [ret |-> FALSE, deny_checked |-> 0]
    ELSE [ret |-> \E i \in 1..Len(allow) :
                      is_match(build_regex(allow[i]), string.v),
          deny_checked |-> 0]

\* is_of_interest: the result and the number of deny patterns evaluated
is_of_interest(string, allow, deny) ==
    IF ~string.some THEN [ret |-> FALSE, deny_checked |-> 0]
    ELSE AllowScan(string.v, allow, deny, 1)

\* strings.any(|string| is_of_interest(Some(string)))
is_of_interest_iter(strings, allow, deny) ==
    \E k \in 1..Len(strings) :
        is_of_interest(Some(strings[k]), allow, deny).ret

\* [..].into_iter().flatten(): the values that are present, in order
RECURSIVE flatten(_)
flatten(options) ==
    IF options = <<>> THEN <<>>
    ELSE (IF Head(options).some THEN <<Head(options).v>> ELSE <<>>)
         \o flatten(Tail(options))

\* device_cleanup.rs is_of_interest
device_is_of_interest(device, allow, deny) ==
    is_of_interest_iter(
        flatten(<<device.description, device.manufacturer,
                  device.inf_original_name>>) \o device.hardware_ids,
        allow, deny)

\* driver_cleanup.rs is_of_interest
driver_is_of_interest(driver, allow, deny) ==
    is_of_interest_iter(flatten(<<driver.inf_original_name, driver.provider>>),
                        allow, deny)

driver_package_is_of_interest_any_string(driver_package, allow, deny) ==
    is_of_interest_iter(
        flatten(<<driver_package.display_name, driver_package.publisher,
                  driver_package.uninstall_string>>),
        allow, deny)

\* driver_package_cleanup.rs is_of_interest
driver_package_is_of_interest(driver_package, allow, deny) ==
    /\ driver_package.display_name.some
    /\ driver_package.uninstall_string.some
    /\ is_of_interest_iter(
           flatten(<<driver_package.display_name, driver_package.publisher,
                     driver_package.uninstall_string>>),
           allow, deny)

\* ---- the calls ----------------------------------------------------------

InterestStrings ==
    {None, Some(<<>>), Some(StrUsb), Some(StrWACOM),
     Some(StrAndroidTablet), Some(StrLogitech),
     Some(StrWacomFiltr)}

InterestFields ==
    {None, Some(StrUsb), Some(StrWACOM), Some(StrAndroidTablet)}

InterestObjects(variant) ==
    CASE variant = "Device" ->
             [description : InterestFields, manufacturer : {None, Some(StrUsb)},
              inf_original_name : {None},
              hardware_ids : {<<>>, <<StrWACOM>>,
                              <<StrUsb, StrAndroidTablet>>}]
      [] variant = "Driver" ->
             [inf_original_name : InterestFields, provider : InterestFields]
      [] OTHER ->
             [display_name : {None, Some(StrUsb), Some(StrWACOM)},
              publisher : {None, Some(StrUsb), Some(StrWACOM)},
              uninstall_string : {None, Some(StrUsb), Some(StrWACOM)}]

\* the attribute strings of an object that its module hands to the filter
AttributeStrings(variant, object) ==
    CASE variant = "Device" ->
             flatten(<<object.description, object.manufacturer,
                       object.inf_original_name>>) \o object.hardware_ids
      [] variant = "Driver" ->
             flatten(<<object.inf_original_name, object.provider>>)
      [] OTHER ->
             flatten(<<object.display_name, object.publisher,
                       object.uninstall_string>>)

InterestCalls ==
    UNION {
        {[op |-> "is_of_interest", allow |-> a, deny |-> d, string |-> s] :
            s \in InterestStrings}
        \cup
        UNION {{[op |-> "object", variant |-> v, allow |-> a, deny |-> d,
                 object |-> o] : o \in InterestObjects(v)} :
                 v \in {"Device", "Driver", "DriverPackage"}}
        : a \in Orders(INTEREST_CACHE), d \in Orders(COUNTER_INTEREST_CACHE)}

InterestInit ==
    /\ m_call \in InterestCalls
    /\ m_ret = Pending
    /\ REGEX_CACHE = EmptyCache
    /\ RunIdle /\ ResolveIdle /\ SuperIdle /\ CacheIdle /\ HandleIdle

ApplyIsOfInterest ==
    /\ m_call.op = "is_of_interest" /\ ~m_ret.done
    /\ LET r == is_of_interest(m_call.string, m_call.allow, m_call.deny)
       IN  m_ret' = [done |-> TRUE, ret |-> r.ret,
                     deny_checked |-> r.deny_checked]
    /\ UNCHANGED <<resolveVars, superVars, cacheVars, handleVars>>
    /\ UNCHANGED <<m_call, runVars, REGEX_CACHE>>

ApplyObjectIsOfInterest ==
    /\ m_call.op = "object" /\ ~m_ret.done
    /\ LET object == m_call.object
           r == CASE m_call.variant = "Device" ->
                        device_is_of_interest(object, m_call.allow,
                                              m_call.deny)
                  [] m_call.variant = "Driver" ->
                        driver_is_of_interest(object, m_call.allow,
                                              m_call.deny)
                  [] OTHER ->
                        driver_package_is_of_interest(object, m_call.allow,
                                                      m_call.deny)
       IN  m_ret' = [done |-> TRUE, ret |-> r, deny_checked |-> 0]
    /\ UNCHANGED <<resolveVars, superVars, cacheVars, handleVars>>
    /\ UNCHANGED <<m_call, runVars, REGEX_CACHE>>

InterestNext == ApplyIsOfInterest \/ ApplyObjectIsOfInterest

InterestSpec == InterestInit /\ [][InterestNext]_vars

-----------------------------------------------------------------------------
(* C35 *)

AllowMatch(string) ==
    \E pattern \in INTEREST_CACHE : is_match(build_regex(pattern), string)

DenyMatch(string) ==
    \E pattern \in COUNTER_INTEREST_CACHE :
        is_match(build_regex(pattern), string)

\* the string, taken alone, is of interest
OfInterest(string) == AllowMatch(string) /\ ~DenyMatch(string)

SomeAttributeOfInterest ==
    LET strings == AttributeStrings(m_call.variant, m_call.object)
    IN  \E k \in 1..Len(strings) : OfInterest(strings[k])

\* C35: is_of_interest returns true exactly for a present string that
\* matches some allow pattern and no deny pattern, in every iteration
\* order of the two maps, and evaluates a deny pattern only for a string
\* that matched an allow pattern.  A device or a driver is of interest
\* exactly when one of the strings its module hands over is of interest
\* by itself; a driver package is of interest exactly when, in addition,
\* its display name and its uninstall string are both present.
C35_InterestFilter ==
    m_ret.done =>
        /\ m_call.op = "is_of_interest" =>
              /\ m_ret.ret = (/\ m_call.string.some
                              /\ OfInterest(m_call.string.v))
              /\ m_ret.deny_checked > 0 =>
                    /\ m_call.string.some
                    /\ AllowMatch(m_call.string.v)
        /\ (m_call.op = "object" /\ m_call.variant # "DriverPackage") =>
              m_ret.ret = SomeAttributeOfInterest
        /\ (m_call.op = "object" /\ m_call.variant = "DriverPackage") =>
              m_ret.ret = (/\ m_call.object.display_name.some
                           /\ m_call.object.uninstall_string.some
                           /\ SomeAttributeOfInterest)

\* a driver package whose publisher is of interest by itself and whose
\* uninstall string is absent was classified as not of interest
C35_Witness ==
    /\ m_ret.done /\ m_call.op = "object"
    /\ m_call.variant = "DriverPackage"
    /\ m_call.object.publisher = Some(StrWACOM)
    /\ ~m_call.object.uninstall_string.some
    /\ SomeAttributeOfInterest /\ ~m_ret.ret

\* the statement as written: an object is of interest whenever one of its
\* attribute strings is of interest by itself
C35_AnyAttributeSuffices ==
    (m_ret.done /\ m_call.op = "object" /\ SomeAttributeOfInterest)
        => m_ret.ret

============================================================================
